---- MODULE Spec2Model ----
(***************************************************************************)
(* A model of the message-aware gRPC reverse proxy of go-proxy/proxy:       *)
(* the envelope processor (processMsg and its helpers) and the stream      *)
(* director (transparentHandler with its two pump goroutines).             *)
(*                                                                         *)
(* Byte strings and Go strings are sequences of naturals (character or     *)
(* byte codes); a nil slice and an empty slice are both << >>.  A nil      *)
(* pointer is << >> and a pointer to x is << x >>.                          *)
(***************************************************************************)
EXTENDS Integers, Sequences, FiniteSets, TLC

VARIABLES
    \* process-wide globals, written by main() before Serve (main.go:79-91)
    methodDescriptors,   \* map method id -> method descriptor
    appConfig,           \* Config; only Routes is read after startup
    clientTrustPool,     \* *x509.CertPool
    proxyPrivateKey,     \* *rsa.PrivateKey
    clientPublicKeyPEM,  \* []byte
    proxyPrivateKeyPEM,  \* []byte
    cryptoEngine,        \* "go" or "rust"
    \* outcomes of the library calls whose failure the code handles
    lib,
    \* the frames the peers put on the two streams of the RPC
    wire,
    \* one call of processMsg: its arguments, its result, its position, and the
    \* result of the same call made before at a proxy with another trust store
    pmArgs, pmRes, pmPc, pmFirst,
    \* one RPC served by transparentHandler
    hpc,                 \* position of the handler
    fullMethodName,      \* method id of the inbound stream
    route,               \* *RouteConfig returned by matchRoute
    retStatus,           \* the error the handler returned ("OK" for nil)
    s2cErrChan, c2sErrChan,   \* buffered channels of capacity 1
    s2c, c2s,            \* the two pump goroutines: [pc, payload]
    conn,                \* backendConn: "none", "open", "closed"
    clientCtx,           \* "none", "live", "cancelled"
    streams,             \* number of client streams opened by the handler
    closeSends,          \* number of clientStream.CloseSend() calls
    procCalls,           \* number of processMsg calls made by the pumps
    inbound,             \* the inbound server stream as the transport sees it
    outbound,            \* the outbound client stream as the transport sees it
    hist,                \* what the handler and the pumps have done so far
    codec,               \* one use of bytesCodec: the memory it works on, the
                         \* handle it was given and what it returned
    ffi,                 \* one call of RustSignPayload: its position, the
                         \* allocation of the foreign side and what was done
                         \* with it
    parked               \* the locals and the streams of a second RPC that is
                         \* served at the same time, while another one steps

globals == <<methodDescriptors, appConfig, clientTrustPool, proxyPrivateKey,
             clientPublicKeyPEM, proxyPrivateKeyPEM, cryptoEngine, lib, wire, codec, ffi>>
pmVars == <<pmArgs, pmRes, pmPc, pmFirst>>
rpcVars == <<hpc, fullMethodName, route, retStatus, s2cErrChan, c2sErrChan,
             s2c, c2s, conn, clientCtx, streams, closeSends, procCalls,
             inbound, outbound, hist>>
vars == <<globals, pmVars, rpcVars, parked>>

----------------------------------------------------------------------------
(* Bounds of the model *)

\* frames a stream end may deliver in one direction of one RPC
MaxFrames == 2
\* wire fields in one frame handed to processMsg
MaxFields == 2
\* rules in the configured route list
MaxRoutes == 2

----------------------------------------------------------------------------
(* Sequences *)

HasPrefix(s, p) == Len(p) <= Len(s) /\ SubSeq(s, 1, Len(p)) = p
HasSuffix(s, p) == Len(p) <= Len(s) /\ SubSeq(s, Len(s) - Len(p) + 1, Len(s)) = p
TrimSuffix(s, p) == IF HasSuffix(s, p) THEN SubSeq(s, 1, Len(s) - Len(p)) ELSE s
IsPrefixOf(a, b) == Len(a) <= Len(b) /\ SubSeq(b, 1, Len(a)) = a

RECURSIVE SeqsUpTo(_, _)
SeqsUpTo(S, n) ==
    IF n = 0 THEN {<< >>}
    ELSE LET shorter == SeqsUpTo(S, n - 1)
         IN shorter \cup {Append(s, x) : s \in shorter, x \in S}

RECURSIVE SelectSeqBy(_, _)
\* the entries of s whose field number is n, in order
SelectSeqBy(s, n) ==
    IF s = << >> THEN << >>
    ELSE (IF Head(s).num = n THEN <<Head(s)>> ELSE << >>) \o SelectSeqBy(Tail(s), n)

----------------------------------------------------------------------------
(* Configuration values the proxy is started with *)

\* Envelope field mappings (EnvelopeConfig, main.go:63-69).
Env(payloadF, typeF, csigF, psigF) ==
    [PayloadField |-> payloadF, TypeURLField |-> typeF,
     ClientSigField |-> csigF, ProxySigField |-> psigF, MetadataField |-> ""]

EmptyEnvelope == Env("", "", "", "")
FullEnvelope == Env("payload", "type_url", "client_signature", "proxy_signature")

\* a RouteConfig value (main.go:57-61)
Route(match, mode, env) == [Match |-> match, Mode |-> mode, Envelope |-> env]

\* Message descriptors of the example schema (api/echo): field name, number, type.
SecureEnvelopeDesc ==
    [name |-> <<101, 46, 83>>,                           \* "e.S"
     fields |-> {[name |-> "payload", num |-> 1, type |-> "bytes"],
                 [name |-> "type_url", num |-> 2, type |-> "string"],
                 [name |-> "client_signature", num |-> 3, type |-> "bytes"],
                 [name |-> "proxy_signature", num |-> 4, type |-> "bytes"],
                 [name |-> "metadata", num |-> 5, type |-> "map"]}]
EchoRequestDesc ==
    [name |-> <<101, 46, 81>>,                           \* "e.Q"
     fields |-> {[name |-> "message", num |-> 1, type |-> "string"]}]
EchoResponseDesc ==
    [name |-> <<101, 46, 82>>,                           \* "e.R"
     fields |-> {[name |-> "message", num |-> 1, type |-> "string"]}]

\* Method ids: "/s/E" (SecureEcho), "/s/U" (a method taking an envelope and
\* answering with an EchoResponse), "/e/U" (UnaryEcho), "/sx/E" (a method of
\* another service whose name starts the same way).
MSecureEcho == <<47, 115, 47, 69>>
MSecureUp == <<47, 115, 47, 85>>
MUnaryEcho == <<47, 101, 47, 85>>
MOther == <<47, 115, 120, 47, 69>>
MethodIds == {MSecureEcho, MSecureUp, MUnaryEcho, MOther}

\* The registry loadFromPB / loadFromReflection build (main.go:468-530): a map from
\* "/<service>/<method>" to the method's descriptor.
FullRegistry ==
    (MSecureEcho :> [input |-> SecureEnvelopeDesc, output |-> SecureEnvelopeDesc])
    @@ (MSecureUp :> [input |-> SecureEnvelopeDesc, output |-> EchoResponseDesc])
    @@ (MUnaryEcho :> [input |-> EchoRequestDesc, output |-> EchoResponseDesc])
EmptyRegistry == [m \in {} |-> [input |-> EchoRequestDesc, output |-> EchoResponseDesc]]

----------------------------------------------------------------------------
(* RSA PKCS#1 v1.5 over SHA-256, as used by both engines.  The hash and   *)
(* the signature are deterministic and injective in the model.             *)

Sha256(p) == <<32>> \o p
SignPKCS1v15(key, hashed) == <<1, key>> \o hashed
VerifyPKCS1v15(key, hashed, sig) == sig = SignPKCS1v15(key, hashed)

\* PEM file contents of private key k, and the SPKI PEM of its public half
\* (main.go:156-157, 166).
PrivPEM(k) == <<45, 80, k>>
PubPEM(k) == <<45, 83, k>>
KeyOfPEM(pem) == pem[3]

\* the bytes of "proxy_signed_" (main.go:379, 402)
ProxySignedPrefix == <<112, 114, 111, 120, 121, 95, 115, 105, 103, 110, 101, 100, 95>>

----------------------------------------------------------------------------
(* The dynamic message library (github.com/jhump/protoreflect/dynamic) as  *)
(* processMsg uses it.  A wire frame is a sequence of fields               *)
(* [num, val]; field number 0 is illegal on the wire.                      *)

FieldByName(msgDesc, fieldName) == {f \in msgDesc.fields : f.name = fieldName}
FieldByNum(msgDesc, n) == {f \in msgDesc.fields : f.num = n}
KnownNums(msgDesc) == {f.num : f \in msgDesc.fields}

\* dynamic.NewMessage(msgDesc) (main.go:325): no field set, no unknown field
NewMessage(msgDesc) ==
    [desc |-> msgDesc, values |-> [n \in KnownNums(msgDesc) |-> << >>], unknown |-> << >>]

\* dynMsg.Unmarshal(payload) fails (main.go:326-330)
UnmarshalFails(payload) == \E i \in 1..Len(payload) : payload[i].num = 0

RECURSIVE MergeFields(_, _)
\* Unmarshal's loop: a known scalar field replaces the value held (a zero value
\* unsets it, proto3), a map field merges, an unknown field is kept in order.
MergeFields(msg, payload) ==
    IF payload = << >> THEN msg
    ELSE LET e == Head(payload)
             fds == FieldByNum(msg.desc, e.num)
             next ==
                 IF fds = {} THEN [msg EXCEPT !.unknown = Append(@, e)]
                 ELSE LET fd == CHOOSE f \in fds : TRUE
                      IN IF fd.type = "map"
                         THEN [msg EXCEPT !.values[e.num] = @ \o e.val]
                         ELSE [msg EXCEPT !.values[e.num] = e.val]
         IN MergeFields(next, Tail(payload))

Unmarshal(msgDesc, payload) == MergeFields(NewMessage(msgDesc), payload)

RECURSIVE MarshalKnown(_, _)
MarshalKnown(msg, nums) ==
    IF nums = {} THEN << >>
    ELSE LET n == CHOOSE x \in nums : \A y \in nums : x <= y
         IN (IF msg.values[n] = << >> THEN << >>
             ELSE <<[num |-> n, val |-> msg.values[n]]>>)
            \o MarshalKnown(msg, nums \ {n})

RECURSIVE MarshalUnknown(_, _)
MarshalUnknown(unknown, nums) ==
    IF nums = {} THEN << >>
    ELSE LET n == CHOOSE x \in nums : \A y \in nums : x <= y
         IN SelectSeqBy(unknown, n) \o MarshalUnknown(unknown, nums \ {n})

\* dynMsg.Marshal() (main.go:412): the set known fields in tag order, then the
\* unknown fields in tag order
Marshal(msg) ==
    MarshalKnown(msg, KnownNums(msg.desc))
    \o MarshalUnknown(msg.unknown, {msg.unknown[i].num : i \in 1..Len(msg.unknown)})

\* msg.TryGetFieldByName(fieldName) (main.go:428, 443): [err, type, val]
TryGetFieldByName(msg, fieldName) ==
    LET fds == FieldByName(msg.desc, fieldName)
    IN IF fds = {} THEN [err |-> TRUE, type |-> "", val |-> << >>]
       ELSE LET fd == CHOOSE f \in fds : TRUE
            IN [err |-> FALSE, type |-> fd.type, val |-> msg.values[fd.num]]

\* dynMsg.TrySetFieldByName(fieldName, val) with val a []byte (main.go:407) fails:
\* no such field, or a field that does not take the value
TrySetFails(msg, fieldName, val) ==
    LET fds == FieldByName(msg.desc, fieldName)
    IN IF fds = {} THEN TRUE
       ELSE LET fd == CHOOSE f \in fds : TRUE
            IN IF fd.type = "bytes" THEN FALSE
               ELSE IF fd.type = "map" THEN Len(val) > 0
               ELSE TRUE

\* the message after a successful TrySetFieldByName
SetField(msg, fieldName, val) ==
    LET fd == CHOOSE f \in FieldByName(msg.desc, fieldName) : TRUE
    IN [msg EXCEPT !.values[fd.num] = val]

----------------------------------------------------------------------------
(* crypto.go: the foreign engine *)

\* RustVerifySignature (crypto.go:17-37): [called, ok]; called says whether
\* C.verify_signature was invoked
RustVerifySignature(payload, sig, pubKeyPEM) ==
    IF Len(payload) = 0 \/ Len(sig) = 0 \/ Len(pubKeyPEM) = 0
    THEN [called |-> FALSE, ok |-> FALSE]
    ELSE [called |-> TRUE,
          ok |-> VerifyPKCS1v15(KeyOfPEM(pubKeyPEM), Sha256(payload), sig)]

\* RustSignPayload (crypto.go:40-74): [called, sig]; sig is nil when the payload
\* or the key is empty or when sign_payload reports failure
RustSignPayload(payload, privKeyPEM) ==
    IF Len(payload) = 0 \/ Len(privKeyPEM) = 0
    THEN [called |-> FALSE, sig |-> << >>]
    ELSE IF lib.signFails
    THEN [called |-> TRUE, sig |-> << >>]
    ELSE [called |-> TRUE, sig |-> SignPKCS1v15(KeyOfPEM(privKeyPEM), Sha256(payload))]

----------------------------------------------------------------------------
(* main.go: bytesCodec. Byte slices are references into a memory of        *)
(* buffers: buffer TransportBuf is the transport's own read buffer, buffer *)
(* HandleBuf is what the handle holds before the call, buffer CopyBuf is   *)
(* the one append([]byte(nil), data...) allocates.                         *)

TransportBuf == "transport"
HandleBuf == "handle"
CopyBuf == "copy"

\* contents of buffers
CodecBytes == SeqsUpTo({7, 8}, MaxFields)

\* the type test that lets every handle through
IsBytesHandleAny(v) == TRUE

\* b, ok := v.(*[]byte)
IsBytesHandle(v) == v.type = "*[]byte"

\* Unmarshal that stores the transport's slice itself: *b = data
bytesCodecUnmarshalNoCopy(heap, data, v) ==
    IF ~IsBytesHandle(v)
    THEN [err |-> TRUE, heap |-> heap, v |-> v]
    ELSE [err |-> FALSE, heap |-> heap, v |-> [v EXCEPT !.ref = data]]

\* bytesCodec.Unmarshal(data, v): the error, the memory and the handle afterwards
bytesCodecUnmarshal(heap, data, v) ==
    IF ~IsBytesHandle(v)
    THEN [err |-> TRUE, heap |-> heap, v |-> v]
    ELSE [err |-> FALSE,
          heap |-> [heap EXCEPT ![CopyBuf] = heap[data]],
          v |-> [v EXCEPT !.ref = CopyBuf]]

\* bytesCodec.Marshal(v): the error and the slice returned, which is *b itself
bytesCodecMarshal(v) ==
    IF ~IsBytesHandle(v)
    THEN [err |-> TRUE, out |-> "nil"]
    ELSE [err |-> FALSE, out |-> v.ref]

\* the codec is not in use
CodecIdle ==
    [pc |-> "idle", heap |-> [b \in {TransportBuf, HandleBuf, CopyBuf} |-> << >>],
     v |-> [type |-> "*[]byte", ref |-> HandleBuf], v0 |-> [type |-> "*[]byte", ref |-> HandleBuf],
     wire0 |-> << >>, held0 |-> << >>, unmarshalled |-> FALSE, reused |-> FALSE,
     out |-> "nil", err |-> FALSE]

\* the transport hands its read buffer to Unmarshal (RecvMsg, main.go:253, 271)
CD_Unmarshal ==
    /\ codec.pc = "ready"
    /\ ~codec.unmarshalled
    /\ LET r == bytesCodecUnmarshal(codec.heap, TransportBuf, codec.v)
       IN codec' = [codec EXCEPT !.heap = r.heap, !.v = r.v, !.err = r.err,
                                 !.unmarshalled = TRUE]
    /\ UNCHANGED <<methodDescriptors, appConfig, clientTrustPool, proxyPrivateKey,
                   clientPublicKeyPEM, proxyPrivateKeyPEM, cryptoEngine, lib, wire,
                   ffi, parked, pmVars, rpcVars>>

\* the transport reads the next frame into the buffer it passed to Unmarshal
CD_Reuse ==
    /\ codec.pc = "ready"
    /\ codec.unmarshalled
    /\ ~codec.reused
    /\ \E f \in CodecBytes :
          codec' = [codec EXCEPT !.heap[TransportBuf] = f, !.reused = TRUE]
    /\ UNCHANGED <<methodDescriptors, appConfig, clientTrustPool, proxyPrivateKey,
                   clientPublicKeyPEM, proxyPrivateKeyPEM, cryptoEngine, lib, wire,
                   ffi, parked, pmVars, rpcVars>>

\* the transport asks Marshal for the bytes of the handle (SendMsg, main.go:260, 278)
CD_Marshal ==
    /\ codec.pc = "ready"
    /\ LET r == bytesCodecMarshal(codec.v)
       IN codec' = [codec EXCEPT !.out = r.out, !.err = r.err, !.pc = "marshalled"]
    /\ UNCHANGED <<methodDescriptors, appConfig, clientTrustPool, proxyPrivateKey,
                   clientPublicKeyPEM, proxyPrivateKeyPEM, cryptoEngine, lib, wire,
                   ffi, parked, pmVars, rpcVars>>

----------------------------------------------------------------------------
(* crypto.go: RustSignPayload step by step, with the buffer the foreign    *)
(* side allocates for the signature: ffi.buf is "none" while there is no   *)
(* such buffer, "live" once sign_payload handed one back, "freed" after    *)
(* free_signature.                                                         *)

FfiIdle ==
    [pc |-> "idle", payload |-> << >>, privKeyPEM |-> << >>, called |-> 0,
     success |-> FALSE, buf |-> "none", bufBytes |-> << >>, sigBytes |-> << >>,
     copied |-> FALSE, frees |-> 0, readFreed |-> FALSE, result |-> << >>]

\* what sign_payload (cryptolib.h:13-19) gives for a payload and a key that are
\* not empty: success with a buffer that holds the signature, or failure with no
\* buffer handed back
SignPayloadOutcomes(payload, privKeyPEM) ==
    {[success |-> TRUE, buf |-> "live",
      bufBytes |-> SignPKCS1v15(KeyOfPEM(privKeyPEM), Sha256(payload))],
     [success |-> FALSE, buf |-> "none", bufBytes |-> << >>]}

\* crypto.go:41-43
RSP_Check ==
    /\ ffi.pc = "entry"
    /\ IF Len(ffi.payload) = 0 \/ Len(ffi.privKeyPEM) = 0
       THEN ffi' = [ffi EXCEPT !.pc = "returned", !.result = << >>]
       ELSE ffi' = [ffi EXCEPT !.pc = "call"]
    /\ UNCHANGED <<methodDescriptors, appConfig, clientTrustPool, proxyPrivateKey,
                   clientPublicKeyPEM, proxyPrivateKeyPEM, cryptoEngine, lib, wire,
                   codec, parked, pmVars, rpcVars>>

\* crypto.go:45-59: C.sign_payload
RSP_Call ==
    /\ ffi.pc = "call"
    /\ \E o \in SignPayloadOutcomes(ffi.payload, ffi.privKeyPEM) :
          ffi' = [ffi EXCEPT !.pc = "test", !.called = @ + 1, !.success = o.success,
                             !.buf = o.buf, !.bufBytes = o.bufBytes]
    /\ UNCHANGED <<methodDescriptors, appConfig, clientTrustPool, proxyPrivateKey,
                   clientPublicKeyPEM, proxyPrivateKeyPEM, cryptoEngine, lib, wire,
                   codec, parked, pmVars, rpcVars>>

\* crypto.go:61-64
RSP_Test ==
    /\ ffi.pc = "test"
    /\ IF ~ffi.success \/ ffi.buf = "none"
       THEN ffi' = [ffi EXCEPT !.pc = "returned", !.result = << >>]
       ELSE ffi' = [ffi EXCEPT !.pc = "copy"]
    /\ UNCHANGED <<methodDescriptors, appConfig, clientTrustPool, proxyPrivateKey,
                   clientPublicKeyPEM, proxyPrivateKeyPEM, cryptoEngine, lib, wire,
                   codec, parked, pmVars, rpcVars>>

\* a copy after which the function returns without free_signature
RSP_CopySkipsRelease ==
    /\ ffi.pc = "copy"
    /\ ffi' = [ffi EXCEPT !.pc = "return", !.sigBytes = ffi.bufBytes, !.copied = TRUE,
                          !.readFreed = @ \/ ffi.buf = "freed"]
    /\ UNCHANGED <<methodDescriptors, appConfig, clientTrustPool, proxyPrivateKey,
                   clientPublicKeyPEM, proxyPrivateKeyPEM, cryptoEngine, lib, wire,
                   codec, parked, pmVars, rpcVars>>

\* crypto.go:66-68: C.GoBytes copies the signature into Go memory
RSP_Copy ==
    /\ ffi.pc = "copy"
    /\ ffi' = [ffi EXCEPT !.pc = "free", !.sigBytes = ffi.bufBytes, !.copied = TRUE,
                          !.readFreed = @ \/ ffi.buf = "freed"]
    /\ UNCHANGED <<methodDescriptors, appConfig, clientTrustPool, proxyPrivateKey,
                   clientPublicKeyPEM, proxyPrivateKeyPEM, cryptoEngine, lib, wire,
                   codec, parked, pmVars, rpcVars>>

\* crypto.go:70-71: C.free_signature
RSP_Free ==
    /\ ffi.pc = "free"
    /\ ffi' = [ffi EXCEPT !.pc = "return", !.frees = @ + 1, !.buf = "freed",
                          !.bufBytes = << >>]
    /\ UNCHANGED <<methodDescriptors, appConfig, clientTrustPool, proxyPrivateKey,
                   clientPublicKeyPEM, proxyPrivateKeyPEM, cryptoEngine, lib, wire,
                   codec, parked, pmVars, rpcVars>>

\* crypto.go:73: return sigBytes
RSP_Return ==
    /\ ffi.pc = "return"
    /\ ffi' = [ffi EXCEPT !.pc = "returned", !.result = ffi.sigBytes]
    /\ UNCHANGED <<methodDescriptors, appConfig, clientTrustPool, proxyPrivateKey,
                   clientPublicKeyPEM, proxyPrivateKeyPEM, cryptoEngine, lib, wire,
                   codec, parked, pmVars, rpcVars>>

----------------------------------------------------------------------------
(* main.go: field helpers and the inner descriptor lookup *)

\* a name test that lets the empty name through to the message
TouchesAlways(fieldName) == TRUE

\* the field helpers go to the message only for a name that is not empty
\* (main.go:425-427, 440-442)
Touches(fieldName) == fieldName # ""

\* getBytesField (main.go:424-437)
getBytesField(msg, fieldName) ==
    IF ~Touches(fieldName) THEN << >>
    ELSE LET r == TryGetFieldByName(msg, fieldName)
         IN IF r.err THEN << >>
            ELSE IF r.type # "bytes" THEN << >>
            ELSE r.val

\* getStringField (main.go:439-452)
getStringField(msg, fieldName) ==
    IF ~Touches(fieldName) THEN << >>
    ELSE LET r == TryGetFieldByName(msg, fieldName)
         IN IF r.err THEN << >>
            ELSE IF r.type # "string" THEN << >>
            ELSE r.val

\* the last "/"-separated part of s (main.go:342-343)
LastPart(s) ==
    LET slashes == {i \in 1..Len(s) : s[i] = 47}
    IN IF slashes = {} THEN s
       ELSE SubSeq(s, (CHOOSE i \in slashes : \A j \in slashes : j <= i) + 1, Len(s))

\* findDescByType (main.go:455-466): the descriptors the loop over the map may
\* return, one per method descriptor with a match (the map's iteration order is
\* not fixed); the empty set when it returns nil
findDescByType(suffixName) ==
    {IF HasSuffix(methodDescriptors[m].input.name, suffixName)
     THEN methodDescriptors[m].input ELSE methodDescriptors[m].output :
        m \in {x \in DOMAIN methodDescriptors :
                  \/ HasSuffix(methodDescriptors[x].input.name, suffixName)
                  \/ HasSuffix(methodDescriptors[x].output.name, suffixName)}}

----------------------------------------------------------------------------
(* main.go: processMsg *)

\* what one call of processMsg did, besides the bytes it returned; reads are the
\* field names it called TryGetFieldByName with, verifyInvoked says that the
\* engine's verification routine was entered, verifyCalled that it got as far as
\* the signature check
Trace(out, stage) ==
    [out |-> out, stage |-> stage, payloadBytes |-> << >>, innerLookup |-> FALSE,
     innerFound |-> FALSE, innerDescs |-> {}, innerDecoded |-> FALSE, verifyInvoked |-> FALSE, verifyCalled |-> FALSE,
     verifyOk |-> FALSE, signCalled |-> FALSE, proxySig |-> << >>, msg |-> << >>, reads |-> {}]

\* a verify-and-sign block that emits the mock signature whatever key is loaded
SignStageMockOnly(payloadBytes, clientSig) ==
    [verifyInvoked |-> FALSE, verifyCalled |-> FALSE, verifyOk |-> FALSE, signCalled |-> FALSE,
     proxySigBytes |-> ProxySignedPrefix \o payloadBytes]

\* a verify-and-sign block that withholds the signature from a frame whose client
\* signature the foreign engine rejected
SignStageDropsUnverified(payloadBytes, clientSig) ==
    LET v == IF cryptoEngine = "rust" /\ Len(clientSig) > 0 /\ Len(clientPublicKeyPEM) > 0
             THEN RustVerifySignature(payloadBytes, clientSig, clientPublicKeyPEM)
             ELSE [called |-> FALSE, ok |-> FALSE]
    IN [verifyInvoked |-> v.called, verifyCalled |-> v.called, verifyOk |-> v.ok,
        signCalled |-> FALSE,
        proxySigBytes |-> IF v.called /\ ~v.ok THEN << >>
                          ELSE ProxySignedPrefix \o payloadBytes]

\* a verify-and-sign block that leaves the signature empty when no key is loaded
SignStageEmptyWithoutKey(payloadBytes, clientSig) ==
    [verifyInvoked |-> FALSE, verifyCalled |-> FALSE, verifyOk |-> FALSE,
     signCalled |-> proxyPrivateKey # << >>,
     proxySigBytes |->
         IF proxyPrivateKey # << >>
         THEN SignPKCS1v15(proxyPrivateKey[1], Sha256(payloadBytes))
         ELSE << >>]

\* the verify-and-sign block (main.go:355-404): [verifyCalled, verifyOk,
\* signCalled, proxySigBytes]
SignStage(payloadBytes, clientSig) ==
    IF cryptoEngine = "rust"
    THEN LET invoked == Len(clientSig) > 0 /\ Len(clientPublicKeyPEM) > 0
             v == IF invoked
                  THEN RustVerifySignature(payloadBytes, clientSig, clientPublicKeyPEM)
                  ELSE [called |-> FALSE, ok |-> FALSE]
             g == IF Len(proxyPrivateKeyPEM) > 0
                  THEN RustSignPayload(payloadBytes, proxyPrivateKeyPEM)
                  ELSE [called |-> FALSE, sig |-> ProxySignedPrefix \o payloadBytes]
         IN [verifyInvoked |-> invoked, verifyCalled |-> v.called, verifyOk |-> v.ok,
             signCalled |-> g.called, proxySigBytes |-> g.sig]
    ELSE [verifyInvoked |-> FALSE, verifyCalled |-> FALSE, verifyOk |-> FALSE,
          signCalled |-> proxyPrivateKey # << >>,
          proxySigBytes |->
              IF proxyPrivateKey # << >>
              THEN (IF lib.signFails THEN << >>
                    ELSE SignPKCS1v15(proxyPrivateKey[1], Sha256(payloadBytes)))
              ELSE ProxySignedPrefix \o payloadBytes]

\* innerDynMsg.Unmarshal(payloadBytes) fails (main.go:348): the inner bytes are
\* read as a sequence of tags, and tag 0 is illegal
InnerUnmarshalFails(payloadBytes) == \E i \in 1..Len(payloadBytes) : payloadBytes[i] = 0

\* the inner-payload block (main.go:340-353): whether the lookup was made, the
\* descriptors findDescByType may have returned, whether the inner message was
\* decoded and logged
InnerInspect(payloadBytes, typeURL) ==
    LET lookup == Len(payloadBytes) > 0 /\ typeURL # << >>
        descs == IF lookup THEN findDescByType(LastPart(typeURL)) ELSE {}
    IN [lookup |-> lookup, descs |-> descs, found |-> descs # {},
        decoded |-> descs # {} /\ ~InnerUnmarshalFails(payloadBytes)]

\* an inner block that gives up on the frame when it looked for the inner
\* message and could not decode it
InnerStopsOnFailure(inner) == inner.lookup /\ ~inner.decoded

\* whether the inner block makes processMsg return the frame as it came: none
\* of its branches returns (main.go:340-353)
InnerStops(inner) == FALSE

\* a mode test that lets every inspected route through to the signing block
SignsAnyInspected(rt) == rt.Mode # "pass-thru"

\* a mode test that keeps only the two other modes it knows from the signing block
SignsUnlessOuter(rt) == rt.Mode \notin {"pass-thru", "inspect-outer"}

\* the mode test guarding the verify-and-sign block (main.go:355)
Signs(rt) == rt.Mode = "inspect-verify-sign"

\* processMsg from the choice of the message descriptor on (main.go:317-421),
\* md being the method's descriptor
\* a choice of descriptor that takes the input type in either direction
DirectionDescInputOnly(md, isReq) == md.input

\* main.go:317-322: md.GetInputType() for a request, md.GetOutputType() otherwise
DirectionDesc(md, isReq) == IF isReq THEN md.input ELSE md.output

processWithDescriptor(md, isReq, payload, rt) ==
    LET msgDesc == DirectionDesc(md, isReq)
    IN
    IF UnmarshalFails(payload) THEN Trace(payload, "unmarshal-error")
    ELSE
    LET dynMsg == Unmarshal(msgDesc, payload)
        payloadBytes == getBytesField(dynMsg, rt.Envelope.PayloadField)
        typeURL == getStringField(dynMsg, rt.Envelope.TypeURLField)
        inner == InnerInspect(payloadBytes, typeURL)
        base == [Trace(payload, "inspected") EXCEPT
                    !.payloadBytes = payloadBytes, !.innerLookup = inner.lookup,
                    !.innerFound = inner.found, !.innerDescs = inner.descs,
                    !.innerDecoded = inner.decoded, !.msg = <<dynMsg>>,
                    !.reads = {n \in {rt.Envelope.PayloadField,
                                      rt.Envelope.TypeURLField} : Touches(n)}]
    IN
    IF InnerStops(inner) \/ ~Signs(rt) THEN base
    ELSE
    LET clientSig == getBytesField(dynMsg, rt.Envelope.ClientSigField)
        sg == SignStage(payloadBytes, clientSig)
        signed == [base EXCEPT !.verifyInvoked = sg.verifyInvoked,
                               !.verifyCalled = sg.verifyCalled,
                               !.verifyOk = sg.verifyOk,
                               !.signCalled = sg.signCalled,
                               !.proxySig = sg.proxySigBytes,
                               !.reads = @ \cup {n \in {rt.Envelope.ClientSigField} :
                                                    Touches(n)}]
    IN
    IF TrySetFails(dynMsg, rt.Envelope.ProxySigField, sg.proxySigBytes)
    THEN [signed EXCEPT !.stage = "set-error"]
    ELSE IF lib.marshalFails
    THEN [signed EXCEPT !.stage = "marshal-error"]
    ELSE [signed EXCEPT
             !.stage = "re-serialized",
             !.out = Marshal(SetField(dynMsg, rt.Envelope.ProxySigField,
                                      sg.proxySigBytes))]

\* a processMsg that takes a method the registry does not know for one that
\* carries envelopes both ways
processMsgTraceAssumesEnvelope(method, isReq, payload, rt) ==
    processWithDescriptor(
        IF method \in DOMAIN methodDescriptors THEN methodDescriptors[method]
        ELSE [input |-> SecureEnvelopeDesc, output |-> SecureEnvelopeDesc],
        isReq, payload, rt)

\* processMsg (main.go:305-421) with what it did on the way; .out is its result
processMsgTrace(method, isReq, payload, rt) ==
    IF method \notin DOMAIN methodDescriptors THEN Trace(payload, "no-descriptor")
    ELSE processWithDescriptor(methodDescriptors[method], isReq, payload, rt)

processMsg(method, isReq, payload, rt) == processMsgTrace(method, isReq, payload, rt).out

----------------------------------------------------------------------------
(* main.go: matchRoute *)

\* "/*"
SlashStar == <<47, 42>>

\* one rule matches the method id (main.go:205-214)
RouteMatches(rt, methodName) ==
    IF HasSuffix(rt.Match, SlashStar)
    THEN HasPrefix(methodName, TrimSuffix(rt.Match, SlashStar))
    ELSE rt.Match = methodName

\* a matcher that lets the last matching rule win
matchRouteLast(methodName) ==
    LET hits == {i \in 1..Len(appConfig.Routes) :
                    RouteMatches(appConfig.Routes[i], methodName)}
    IN IF hits = {} THEN Route(<< >>, "pass-thru", EmptyEnvelope)
       ELSE appConfig.Routes[CHOOSE i \in hits : \A j \in hits : j <= i]

\* a matcher that inspects, with the example envelope, what no rule matches
matchRouteInspectsRest(methodName) ==
    LET hits == {i \in 1..Len(appConfig.Routes) :
                    RouteMatches(appConfig.Routes[i], methodName)}
    IN IF hits = {} THEN Route(<< >>, "inspect-outer", FullEnvelope)
       ELSE appConfig.Routes[CHOOSE i \in hits : \A j \in hits : i <= j]

\* matchRoute (main.go:203-218)
matchRoute(methodName) ==
    LET hits == {i \in 1..Len(appConfig.Routes) :
                    RouteMatches(appConfig.Routes[i], methodName)}
    IN IF hits = {} THEN Route(<< >>, "pass-thru", EmptyEnvelope)
       ELSE appConfig.Routes[CHOOSE i \in hits : \A j \in hits : i <= j]

----------------------------------------------------------------------------
(* main.go: transparentHandler and its two pumps, for one RPC.             *)
(* inbound.cancelled: the inbound stream's context is cancelled (the       *)
(* client went away); inbound.steady: this client does not go away.        *)
(* outbound.done: how the backend ended the outbound stream, "no" while it *)
(* has not.  outbound.echo: the backend method is                          *)
(* SecureBidiEcho of the example backend, which answers each frame it gets *)
(* and returns when it sees the half-close; otherwise the backend is any   *)
(* backend.                                                                *)

F(n, v) == [num |-> n, val |-> v]

\* frames the two stream ends deliver: an envelope in canonical form, one whose
\* fields are out of tag order and that carries a proxy signature already
RpcFrames == {<<F(1, <<7>>)>>, <<F(4, <<8>>), F(1, <<7>>)>>}

Idle == [pc |-> "idle", payload |-> << >>, err |-> ""]

\* the value of field n in frame f as generated code reads it: the last one on the
\* wire, empty when there is none
LastVal(f, n) ==
    LET idx == {i \in 1..Len(f) : f[i].num = n}
    IN IF idx = {} THEN << >>
       ELSE f[CHOOSE i \in idx : \A j \in idx : j <= i].val

\* "Backend Streaming Processed: "
EchoPrefix == <<66>>

\* the envelope SecureBidiEcho sends for a request (backend main.go:70-74):
\* payload with the prefix, type_url and proxy_signature of the request; empty
\* fields are not put on the wire
EchoResponse(req) ==
    <<F(1, EchoPrefix \o LastVal(req, 1))>>
    \o (IF LastVal(req, 2) # << >> THEN <<F(2, LastVal(req, 2))>> ELSE << >>)
    \o (IF LastVal(req, 4) # << >> THEN <<F(4, LastVal(req, 4))>> ELSE << >>)

\* the frames the backend may deliver next: anything on the wire, or, from
\* SecureBidiEcho, the answer to the next request it has not answered yet
BackendFrames ==
    IF outbound.echo
    THEN (IF Len(hist.s2cIn) < Len(hist.c2sOut)
          THEN {EchoResponse(hist.c2sOut[Len(hist.s2cIn) + 1])}
          ELSE {})
    ELSE wire

\* a scope that is not derived from the inbound stream's context
ScopeDoneDetached == clientCtx = "cancelled"

\* clientCtx is done: clientCancel() was called, or the parent context was cancelled
\* (main.go:230, 238)
ScopeDone == clientCtx = "cancelled" \/ inbound.cancelled

\* an inbound stream that outlives the handler
InboundDeadOnCancelOnly == inbound.cancelled

\* the inbound server stream no longer carries frames: its context is cancelled, or
\* the handler returned
InboundDead == inbound.cancelled \/ hpc = "done"

\* a pump transform that hands every frame to processMsg
PumpProcessAlways(isReq, payload) ==
    [payload |-> processMsg(fullMethodName, isReq, payload, route), calls |-> 1]

\* the transform a pump applies to a frame (main.go:257-259, 275-277):
\* [payload, calls], calls the number of processMsg calls made
PumpProcess(isReq, payload) ==
    IF route.Mode # "pass-thru"
    THEN [payload |-> processMsg(fullMethodName, isReq, payload, route), calls |-> 1]
    ELSE [payload |-> payload, calls |-> 0]

\* a return that cancels the scope and leaves the backend connection open
ReturnFromLeaky(status, ctx, cn) ==
    /\ hpc' = "done"
    /\ retStatus' = status
    /\ clientCtx' = IF ctx = "live" THEN "cancelled" ELSE ctx
    /\ conn' = cn

\* return err, with the deferred clientCancel() and backendConn.Close()
\* (main.go:236, 239), ctx and cn being the scope and the connection at that point
ReturnFrom(status, ctx, cn) ==
    /\ hpc' = "done"
    /\ retStatus' = status
    /\ clientCtx' = IF ctx = "live" THEN "cancelled" ELSE ctx
    /\ conn' = IF cn = "open" THEN "closed" ELSE cn

Return(status) == ReturnFrom(status, clientCtx, conn)

\* a status that swallows the error of the report
StatusOfNil(err) == "OK"

\* the status for a pump's report (main.go:287-290, 295-298)
StatusOf(err) == IF err = "EOF" THEN "OK" ELSE err

\* a method step that moves the matched route to the head of the route list
H_MethodCachesRoute ==
    /\ hpc = "start"
    /\ \E ok \in BOOLEAN :
          IF ok
          THEN /\ route' = matchRoute(fullMethodName)
               /\ appConfig' = [Routes |-> <<route'>> \o appConfig.Routes]
               /\ hpc' = "dial"
               /\ UNCHANGED <<retStatus, clientCtx, conn>>
          ELSE /\ Return("Internal")
               /\ UNCHANGED <<route, appConfig>>
    /\ UNCHANGED <<methodDescriptors, clientTrustPool, proxyPrivateKey, clientPublicKeyPEM,
                   proxyPrivateKeyPEM, cryptoEngine, lib, wire, codec, ffi, parked, pmVars,
                   fullMethodName, s2cErrChan, c2sErrChan, s2c, c2s,
                   streams, closeSends, procCalls, inbound, outbound, hist>>

\* main.go:221-226
H_Method ==
    /\ hpc = "start"
    /\ \E ok \in BOOLEAN :
          IF ok
          THEN /\ route' = matchRoute(fullMethodName)
               /\ hpc' = "dial"
               /\ UNCHANGED <<retStatus, clientCtx, conn>>
          ELSE /\ Return("Internal")
               /\ UNCHANGED route
    /\ UNCHANGED <<globals, parked, pmVars, fullMethodName, s2cErrChan, c2sErrChan, s2c, c2s,
                   streams, closeSends, procCalls, inbound, outbound, hist>>

\* a dial step that goes on to open the stream whether or not the dial succeeded
H_DialIgnoresError ==
    /\ hpc = "dial"
    /\ outbound' = [outbound EXCEPT !.md = inbound.md, !.mdCopies = @ + 1]
    /\ \E ok \in BOOLEAN : conn' = IF ok THEN "open" ELSE conn
    /\ hpc' = "newstream"
    /\ UNCHANGED <<retStatus, clientCtx>>
    /\ UNCHANGED <<globals, parked, pmVars, fullMethodName, route, s2cErrChan, c2sErrChan, s2c,
                   c2s, streams, closeSends, procCalls, inbound, hist>>

\* main.go:229-236: the inbound metadata is copied into the outgoing context
\* (md.Copy()), then the backend is dialled
H_Dial ==
    /\ hpc = "dial"
    /\ outbound' = [outbound EXCEPT !.md = inbound.md, !.mdCopies = @ + 1]
    /\ \E ok \in BOOLEAN :
          IF ok
          THEN /\ conn' = "open"
               /\ hpc' = "newstream"
               /\ UNCHANGED <<retStatus, clientCtx>>
          ELSE Return("ErrDial")
    /\ UNCHANGED <<globals, parked, pmVars, fullMethodName, route, s2cErrChan, c2sErrChan, s2c,
                   c2s, streams, closeSends, procCalls, inbound, hist>>

\* a stream open that mirrors the inbound metadata into the context once more
H_NewStreamMirrorsAgain ==
    /\ hpc = "newstream"
    /\ outbound' = [outbound EXCEPT !.md = inbound.md, !.mdCopies = @ + 1]
    /\ \E ok \in {b \in BOOLEAN : inbound.cancelled => ~b} :
          IF ok
          THEN /\ clientCtx' = "live"
               /\ streams' = streams + 1
               /\ hpc' = "spawn_s2c"
               /\ UNCHANGED <<retStatus, conn>>
          ELSE /\ ReturnFrom("ErrStream", "live", conn)
               /\ UNCHANGED streams
    /\ UNCHANGED <<globals, parked, pmVars, fullMethodName, route, s2cErrChan, c2sErrChan, s2c,
                   c2s, closeSends, procCalls, inbound, hist>>

\* main.go:238-247; NewClientStream fails when its context is already cancelled
H_NewStream ==
    /\ hpc = "newstream"
    /\ \E ok \in {b \in BOOLEAN : inbound.cancelled => ~b} :
          IF ok
          THEN /\ clientCtx' = "live"
               /\ streams' = streams + 1
               /\ hpc' = "spawn_s2c"
               /\ UNCHANGED <<retStatus, conn>>
          ELSE /\ ReturnFrom("ErrStream", "live", conn)
               /\ UNCHANGED streams
    /\ UNCHANGED <<globals, parked, pmVars, fullMethodName, route, s2cErrChan, c2sErrChan, s2c,
                   c2s, closeSends, procCalls, inbound, outbound, hist>>

\* main.go:249-250: go func() of the backend-to-client pump
H_SpawnS2C ==
    /\ hpc = "spawn_s2c"
    /\ s2c' = [Idle EXCEPT !.pc = "recv"]
    /\ hpc' = "spawn_c2s"
    /\ UNCHANGED <<globals, parked, pmVars, fullMethodName, route, retStatus, s2cErrChan,
                   c2sErrChan, c2s, conn, clientCtx, streams, closeSends, procCalls,
                   inbound, outbound, hist>>

\* main.go:267-268: go func() of the client-to-backend pump
H_SpawnC2S ==
    /\ hpc = "spawn_c2s"
    /\ c2s' = [Idle EXCEPT !.pc = "recv"]
    /\ hpc' = "select"
    /\ UNCHANGED <<globals, parked, pmVars, fullMethodName, route, retStatus, s2cErrChan,
                   c2sErrChan, s2c, conn, clientCtx, streams, closeSends, procCalls,
                   inbound, outbound, hist>>

\* main.go:285-290: the select takes the s2c report
H_SelectS2C ==
    /\ hpc = "select"
    /\ s2cErrChan # << >>
    /\ s2cErrChan' = Tail(s2cErrChan)
    /\ hist' = [hist EXCEPT !.s2cTaken = Head(s2cErrChan)]
    /\ Return(StatusOf(Head(s2cErrChan)))
    /\ UNCHANGED <<globals, parked, pmVars, fullMethodName, route, c2sErrChan, s2c, c2s,
                   streams, closeSends, procCalls, inbound, outbound>>

\* a select branch that half-closes on any c2s report before looking at it
H_SelectC2SCloseAny ==
    /\ hpc = "select"
    /\ c2sErrChan # << >>
    /\ c2sErrChan' = Tail(c2sErrChan)
    /\ closeSends' = closeSends + 1
    /\ IF Head(c2sErrChan) = "EOF"
       THEN /\ hpc' = "wait_s2c"
            /\ hist' = [hist EXCEPT !.c2sTaken = Head(c2sErrChan),
                                    !.sentAtClose = Len(hist.c2sOut),
                                    !.fwdAtClose = Len(hist.s2cOut)]
            /\ UNCHANGED <<retStatus, clientCtx, conn>>
       ELSE /\ Return(StatusOf(Head(c2sErrChan)))
            /\ hist' = [hist EXCEPT !.c2sTaken = Head(c2sErrChan)]
    /\ UNCHANGED <<globals, parked, pmVars, fullMethodName, route, s2cErrChan, s2c, c2s,
                   streams, procCalls, inbound, outbound>>

\* a select branch that returns on the c2s report without waiting for the s2c pump
H_SelectC2SNoWait ==
    /\ hpc = "select"
    /\ c2sErrChan # << >>
    /\ c2sErrChan' = Tail(c2sErrChan)
    /\ closeSends' = closeSends + (IF Head(c2sErrChan) = "EOF" THEN 1 ELSE 0)
    /\ hist' = [hist EXCEPT !.c2sTaken = Head(c2sErrChan)]
    /\ Return(StatusOf(Head(c2sErrChan)))
    /\ UNCHANGED <<globals, parked, pmVars, fullMethodName, route, s2cErrChan, s2c, c2s,
                   streams, procCalls, inbound, outbound>>

\* main.go:291-293, 300: the select takes the c2s report; on io.EOF CloseSend()
H_SelectC2S ==
    /\ hpc = "select"
    /\ c2sErrChan # << >>
    /\ c2sErrChan' = Tail(c2sErrChan)
    /\ IF Head(c2sErrChan) = "EOF"
       THEN /\ closeSends' = closeSends + 1
            /\ hpc' = "wait_s2c"
            /\ hist' = [hist EXCEPT !.c2sTaken = Head(c2sErrChan),
                                    !.sentAtClose = Len(hist.c2sOut),
                                    !.fwdAtClose = Len(hist.s2cOut)]
            /\ UNCHANGED <<retStatus, clientCtx, conn>>
       ELSE /\ Return(StatusOf(Head(c2sErrChan)))
            /\ hist' = [hist EXCEPT !.c2sTaken = Head(c2sErrChan)]
            /\ UNCHANGED closeSends
    /\ UNCHANGED <<globals, parked, pmVars, fullMethodName, route, s2cErrChan, s2c, c2s,
                   streams, procCalls, inbound, outbound>>

\* a wait that gives up on the s2c pump and returns success after the half-close
H_WaitS2CGivesUp ==
    /\ hpc = "wait_s2c"
    /\ Return("OK")
    /\ UNCHANGED <<globals, parked, pmVars, fullMethodName, route, s2cErrChan, c2sErrChan,
                   s2c, c2s, streams, closeSends, procCalls, inbound, outbound, hist>>

\* main.go:294-298: err = <-s2cErrChan after the half-close
H_WaitS2C ==
    /\ hpc = "wait_s2c"
    /\ s2cErrChan # << >>
    /\ s2cErrChan' = Tail(s2cErrChan)
    /\ hist' = [hist EXCEPT !.s2cTaken = Head(s2cErrChan)]
    /\ Return(StatusOf(Head(s2cErrChan)))
    /\ UNCHANGED <<globals, parked, pmVars, fullMethodName, route, c2sErrChan, s2c, c2s,
                   streams, closeSends, procCalls, inbound, outbound>>

\* a pump stops with err: the value goes to its error channel next
Stop(pump, err) == [pump EXCEPT !.pc = "report", !.err = err]

\* main.go:253-259: clientStream.RecvMsg, then the transform
S2C_Recv ==
    /\ s2c.pc = "recv"
    /\ \/ /\ ScopeDone
          /\ s2c' = Stop(s2c, "Canceled")
          /\ UNCHANGED <<hist, procCalls>>
       \/ /\ outbound.done = "ok"
          /\ s2c' = Stop(s2c, "EOF")
          /\ UNCHANGED <<hist, procCalls>>
       \/ /\ outbound.done = "err"
          /\ s2c' = Stop(s2c, "ErrBackend")
          /\ UNCHANGED <<hist, procCalls>>
       \/ /\ ~ScopeDone /\ outbound.done = "no"
          /\ Len(hist.s2cIn) < MaxFrames
          /\ \E f \in BackendFrames :
                LET r == PumpProcess(FALSE, f)
                IN /\ s2c' = [s2c EXCEPT !.pc = "send", !.payload = r.payload]
                   /\ procCalls' = procCalls + r.calls
                   /\ hist' = [hist EXCEPT !.s2cIn = Append(@, f)]
    /\ UNCHANGED <<globals, parked, pmVars, hpc, fullMethodName, route, retStatus, s2cErrChan,
                   c2sErrChan, c2s, conn, clientCtx, streams, closeSends, inbound,
                   outbound>>

\* a send that loses the frame and lets the pump go on
S2C_SendLosesFrame ==
    /\ s2c.pc = "send"
    /\ IF InboundDead
       THEN /\ s2c' = Stop(s2c, "ErrClientSend")
            /\ hist' = [hist EXCEPT !.s2cSendLate = @ \/ hpc = "done"]
       ELSE /\ s2c' = [s2c EXCEPT !.pc = "recv"]
            /\ \E sent \in BOOLEAN :
                  hist' = IF sent THEN [hist EXCEPT !.s2cOut = Append(@, s2c.payload)]
                          ELSE hist
    /\ UNCHANGED <<globals, parked, pmVars, hpc, fullMethodName, route, retStatus, s2cErrChan,
                   c2sErrChan, c2s, conn, clientCtx, streams, closeSends, procCalls,
                   inbound, outbound>>

\* main.go:260-263: serverStream.SendMsg
S2C_Send ==
    /\ s2c.pc = "send"
    /\ IF InboundDead
       THEN /\ s2c' = Stop(s2c, "ErrClientSend")
            /\ hist' = [hist EXCEPT !.s2cSendLate = @ \/ hpc = "done"]
       ELSE /\ s2c' = [s2c EXCEPT !.pc = "recv"]
            /\ hist' = [hist EXCEPT !.s2cOut = Append(@, s2c.payload)]
    /\ UNCHANGED <<globals, parked, pmVars, hpc, fullMethodName, route, retStatus, s2cErrChan,
                   c2sErrChan, c2s, conn, clientCtx, streams, closeSends, procCalls,
                   inbound, outbound>>

\* a report after which the pump stays at its report statement
S2C_ReportStays ==
    /\ s2c.pc = "report"
    /\ Len(s2cErrChan) < 1
    /\ s2cErrChan' = Append(s2cErrChan, s2c.err)
    /\ s2c' = s2c
    /\ hist' = [hist EXCEPT !.s2cReport = s2c.err, !.s2cLate = (hpc = "done")]
    /\ UNCHANGED <<globals, parked, pmVars, hpc, fullMethodName, route, retStatus, c2sErrChan,
                   c2s, conn, clientCtx, streams, closeSends, procCalls, inbound,
                   outbound>>

\* main.go:254, 261: s2cErrChan <- err; break
S2C_Report ==
    /\ s2c.pc = "report"
    /\ Len(s2cErrChan) < 1
    /\ s2cErrChan' = Append(s2cErrChan, s2c.err)
    /\ s2c' = [s2c EXCEPT !.pc = "done"]
    /\ hist' = [hist EXCEPT !.s2cReport = s2c.err, !.s2cLate = (hpc = "done")]
    /\ UNCHANGED <<globals, parked, pmVars, hpc, fullMethodName, route, retStatus, c2sErrChan,
                   c2s, conn, clientCtx, streams, closeSends, procCalls, inbound,
                   outbound>>

\* the outcomes of processMsg in which a step of it failed
FailureStages == {"no-descriptor", "unmarshal-error", "set-error", "marshal-error"}

\* a receive that ends the pump when processMsg could not do its work on the frame
C2S_RecvStopsOnFailure ==
    /\ c2s.pc = "recv"
    /\ \/ /\ InboundDead
          /\ c2s' = Stop(c2s, "ErrClientRecv")
          /\ UNCHANGED <<hist, procCalls>>
       \/ /\ ~InboundDead
          /\ c2s' = Stop(c2s, "EOF")
          /\ hist' = [hist EXCEPT !.halfClose = TRUE]
          /\ UNCHANGED procCalls
       \/ /\ ~InboundDead
          /\ Len(hist.c2sIn) < MaxFrames
          /\ \E f \in wire :
                LET r == PumpProcess(TRUE, f)
                    failed == /\ route.Mode # "pass-thru"
                              /\ processMsgTrace(fullMethodName, TRUE, f, route).stage
                                     \in FailureStages
                IN /\ c2s' = IF failed THEN Stop(c2s, "ErrClientRecv")
                              ELSE [c2s EXCEPT !.pc = "send", !.payload = r.payload]
                   /\ procCalls' = procCalls + r.calls
                   /\ hist' = [hist EXCEPT !.c2sIn = Append(@, f)]
    /\ UNCHANGED <<globals, parked, pmVars, hpc, fullMethodName, route, retStatus, s2cErrChan,
                   c2sErrChan, s2c, conn, clientCtx, streams, closeSends, inbound,
                   outbound>>

\* main.go:271-277: serverStream.RecvMsg, then the transform; io.EOF is the
\* client's half-close
C2S_Recv ==
    /\ c2s.pc = "recv"
    /\ \/ /\ InboundDead
          /\ c2s' = Stop(c2s, "ErrClientRecv")
          /\ UNCHANGED <<hist, procCalls>>
       \/ /\ ~InboundDead
          /\ c2s' = Stop(c2s, "EOF")
          /\ hist' = [hist EXCEPT !.halfClose = TRUE]
          /\ UNCHANGED procCalls
       \/ /\ ~InboundDead
          /\ Len(hist.c2sIn) < MaxFrames
          /\ \E f \in wire :
                LET r == PumpProcess(TRUE, f)
                IN /\ c2s' = [c2s EXCEPT !.pc = "send", !.payload = r.payload]
                   /\ procCalls' = procCalls + r.calls
                   /\ hist' = [hist EXCEPT !.c2sIn = Append(@, f)]
    /\ UNCHANGED <<globals, parked, pmVars, hpc, fullMethodName, route, retStatus, s2cErrChan,
                   c2sErrChan, s2c, conn, clientCtx, streams, closeSends, inbound,
                   outbound>>

\* a send that still goes out on an outbound stream whose scope is cancelled
C2S_SendAfterScope ==
    /\ c2s.pc = "send"
    /\ IF outbound.done # "no"
       THEN /\ c2s' = Stop(c2s, "EOF")
            /\ hist' = [hist EXCEPT !.c2sSendLate = @ \/ hpc = "done"]
       ELSE /\ c2s' = [c2s EXCEPT !.pc = "recv"]
            /\ hist' = [hist EXCEPT !.c2sOut = Append(@, c2s.payload)]
    /\ UNCHANGED <<globals, parked, pmVars, hpc, fullMethodName, route, retStatus, s2cErrChan,
                   c2sErrChan, s2c, conn, clientCtx, streams, closeSends, procCalls,
                   inbound, outbound>>

\* a send that puts the frame on the outbound stream twice
C2S_SendTwice ==
    /\ c2s.pc = "send"
    /\ IF ScopeDone \/ outbound.done # "no"
       THEN /\ c2s' = Stop(c2s, "EOF")
            /\ hist' = [hist EXCEPT !.c2sSendLate = @ \/ hpc = "done"]
       ELSE /\ c2s' = [c2s EXCEPT !.pc = "recv"]
            /\ hist' = [hist EXCEPT !.c2sOut = Append(Append(@, c2s.payload), c2s.payload)]
    /\ UNCHANGED <<globals, parked, pmVars, hpc, fullMethodName, route, retStatus, s2cErrChan,
                   c2sErrChan, s2c, conn, clientCtx, streams, closeSends, procCalls,
                   inbound, outbound>>

\* main.go:278-281: clientStream.SendMsg; on a stream that is over it returns io.EOF
C2S_Send ==
    /\ c2s.pc = "send"
    /\ IF ScopeDone \/ outbound.done # "no"
       THEN /\ c2s' = Stop(c2s, "EOF")
            /\ hist' = [hist EXCEPT !.c2sSendLate = @ \/ hpc = "done"]
       ELSE /\ c2s' = [c2s EXCEPT !.pc = "recv"]
            /\ hist' = [hist EXCEPT !.c2sOut = Append(@, c2s.payload)]
    /\ UNCHANGED <<globals, parked, pmVars, hpc, fullMethodName, route, retStatus, s2cErrChan,
                   c2sErrChan, s2c, conn, clientCtx, streams, closeSends, procCalls,
                   inbound, outbound>>

\* main.go:272, 279: c2sErrChan <- err; break
C2S_Report ==
    /\ c2s.pc = "report"
    /\ Len(c2sErrChan) < 1
    /\ c2sErrChan' = Append(c2sErrChan, c2s.err)
    /\ c2s' = [c2s EXCEPT !.pc = "done"]
    /\ hist' = [hist EXCEPT !.c2sReport = c2s.err, !.c2sLate = (hpc = "done")]
    /\ UNCHANGED <<globals, parked, pmVars, hpc, fullMethodName, route, retStatus, s2cErrChan,
                   s2c, conn, clientCtx, streams, closeSends, procCalls, inbound,
                   outbound>>

\* the client goes away: the inbound stream's context is cancelled
ClientAbort ==
    /\ ~inbound.steady
    /\ hpc # "done"
    /\ ~inbound.cancelled
    /\ inbound' = [inbound EXCEPT !.cancelled = TRUE]
    /\ UNCHANGED <<globals, parked, pmVars, hpc, fullMethodName, route, retStatus, s2cErrChan,
                   c2sErrChan, s2c, c2s, conn, clientCtx, streams, closeSends,
                   procCalls, outbound, hist>>

\* SecureBidiEcho returns nil: stream.Recv() gave io.EOF, which it does after the
\* half-close, every request before it having been answered (backend
\* main.go:62-66)
EchoEnd ==
    /\ outbound.echo
    /\ streams > 0
    /\ outbound.done = "no"
    /\ ~ScopeDone
    /\ closeSends > 0
    /\ Len(hist.s2cIn) = Len(hist.c2sOut)
    /\ outbound' = [outbound EXCEPT !.done = "ok"]
    /\ UNCHANGED <<globals, parked, pmVars, hpc, fullMethodName, route, retStatus, s2cErrChan,
                   c2sErrChan, s2c, c2s, conn, clientCtx, streams, closeSends,
                   procCalls, inbound, hist>>

\* the backend ends the outbound stream, with status OK or with an error
BackendEnd ==
    /\ ~outbound.echo
    /\ streams > 0
    /\ outbound.done = "no"
    /\ ~ScopeDone
    /\ \E st \in {"ok", "err"} : outbound' = [outbound EXCEPT !.done = st]
    /\ UNCHANGED <<globals, parked, pmVars, hpc, fullMethodName, route, retStatus, s2cErrChan,
                   c2sErrChan, s2c, c2s, conn, clientCtx, streams, closeSends,
                   procCalls, inbound, hist>>

\* there is no second RPC
NoRpc == << >>

\* the RPC that steps, as a record: the locals of its transparentHandler call,
\* its method and the frames its stream ends deliver
ThisRpc ==
    [hpc |-> hpc, route |-> route, retStatus |-> retStatus, s2cErrChan |-> s2cErrChan,
     c2sErrChan |-> c2sErrChan, s2c |-> s2c, c2s |-> c2s, conn |-> conn,
     clientCtx |-> clientCtx, streams |-> streams, closeSends |-> closeSends,
     procCalls |-> procCalls, inbound |-> inbound, outbound |-> outbound,
     hist |-> hist, fullMethodName |-> fullMethodName, wire |-> wire]

\* a switch between two RPCs whose client-to-backend pumps use one payload
\* variable
SwitchSharesPayload ==
    /\ parked # NoRpc
    /\ hpc' = parked.hpc
    /\ route' = parked.route
    /\ retStatus' = parked.retStatus
    /\ s2cErrChan' = parked.s2cErrChan
    /\ c2sErrChan' = parked.c2sErrChan
    /\ s2c' = parked.s2c
    /\ c2s' = [parked.c2s EXCEPT !.payload = c2s.payload]
    /\ conn' = parked.conn
    /\ clientCtx' = parked.clientCtx
    /\ streams' = parked.streams
    /\ closeSends' = parked.closeSends
    /\ procCalls' = parked.procCalls
    /\ inbound' = parked.inbound
    /\ outbound' = parked.outbound
    /\ hist' = parked.hist
    /\ fullMethodName' = parked.fullMethodName
    /\ wire' = parked.wire
    /\ parked' = ThisRpc
    /\ UNCHANGED <<methodDescriptors, appConfig, clientTrustPool, proxyPrivateKey,
                   clientPublicKeyPEM, proxyPrivateKeyPEM, cryptoEngine, lib, codec,
                   ffi, pmVars>>

\* the goroutines of the other RPC run next (main.go:189: the server calls
\* transparentHandler once per RPC, each call with its own locals, 229-250,
\* 268-269): the RPC that stepped is set aside as it is, the other one goes on
\* from where it was
Switch ==
    /\ parked # NoRpc
    /\ hpc' = parked.hpc
    /\ route' = parked.route
    /\ retStatus' = parked.retStatus
    /\ s2cErrChan' = parked.s2cErrChan
    /\ c2sErrChan' = parked.c2sErrChan
    /\ s2c' = parked.s2c
    /\ c2s' = parked.c2s
    /\ conn' = parked.conn
    /\ clientCtx' = parked.clientCtx
    /\ streams' = parked.streams
    /\ closeSends' = parked.closeSends
    /\ procCalls' = parked.procCalls
    /\ inbound' = parked.inbound
    /\ outbound' = parked.outbound
    /\ hist' = parked.hist
    /\ fullMethodName' = parked.fullMethodName
    /\ wire' = parked.wire
    /\ parked' = ThisRpc
    /\ UNCHANGED <<methodDescriptors, appConfig, clientTrustPool, proxyPrivateKey,
                   clientPublicKeyPEM, proxyPrivateKeyPEM, cryptoEngine, lib, codec,
                   ffi, pmVars>>

----------------------------------------------------------------------------
(* Startup values *)

\* the route list of the example configuration: SecureEcho is verified and
\* signed, the rest of its service is inspected, anything else passes through
ExampleRoutes ==
    <<Route(MSecureEcho, "inspect-verify-sign", FullEnvelope),
      Route(<<47, 115>> \o SlashStar, "inspect-outer", FullEnvelope)>>

NoTrace == Trace(<< >>, "")
NoArgs == [method |-> << >>, isReq |-> FALSE, payload |-> << >>,
           rt |-> Route(<< >>, "", EmptyEnvelope)]

\* main() (main.go:116-184): the globals as they stand when Serve is called.
\* The key material is loaded as a whole or not at all.
Startup(engine, registry, routes, trusted, keyed, signFails, marshalFails) ==
    /\ cryptoEngine = engine
    /\ methodDescriptors = registry
    /\ appConfig = [Routes |-> routes]
    /\ clientTrustPool = IF trusted THEN <<2>> ELSE << >>
    /\ clientPublicKeyPEM = IF trusted THEN PubPEM(2) ELSE << >>
    /\ proxyPrivateKey = IF keyed THEN <<3>> ELSE << >>
    /\ proxyPrivateKeyPEM = IF keyed THEN PrivPEM(3) ELSE << >>
    /\ lib = [signFails |-> signFails, marshalFails |-> marshalFails]

\* the locals of transparentHandler and its streams when no step has been taken;
\* echo says what backend the RPC will reach, steady that its client stays until
\* the RPC is over
\* the metadata the client sent with the RPC (main.go:229), "md" in the model
ClientMetadata == <<109, 100>>

RpcLocals(echo, steady) ==
    [hpc |-> "start",
     route |-> Route(<< >>, "", EmptyEnvelope),
     retStatus |-> "",
     s2cErrChan |-> << >>,
     c2sErrChan |-> << >>,
     s2c |-> Idle,
     c2s |-> Idle,
     conn |-> "none",
     clientCtx |-> "none",
     streams |-> 0,
     closeSends |-> 0,
     procCalls |-> 0,
     inbound |-> [cancelled |-> FALSE, steady |-> steady, md |-> ClientMetadata],
     outbound |-> [done |-> "no", echo |-> echo, md |-> << >>, mdCopies |-> 0],
     hist |-> [c2sIn |-> << >>, c2sOut |-> << >>, s2cIn |-> << >>, s2cOut |-> << >>,
               halfClose |-> FALSE, sentAtClose |-> 0, fwdAtClose |-> 0,
               s2cLate |-> FALSE, c2sLate |-> FALSE,
               s2cSendLate |-> FALSE, c2sSendLate |-> FALSE,
               s2cReport |-> "", c2sReport |-> "", s2cTaken |-> "", c2sTaken |-> ""]]

\* the RPC that steps is in rs
RpcIs(rs) ==
    /\ hpc = rs.hpc
    /\ route = rs.route
    /\ retStatus = rs.retStatus
    /\ s2cErrChan = rs.s2cErrChan
    /\ c2sErrChan = rs.c2sErrChan
    /\ s2c = rs.s2c
    /\ c2s = rs.c2s
    /\ conn = rs.conn
    /\ clientCtx = rs.clientCtx
    /\ streams = rs.streams
    /\ closeSends = rs.closeSends
    /\ procCalls = rs.procCalls
    /\ inbound = rs.inbound
    /\ outbound = rs.outbound
    /\ hist = rs.hist

\* no RPC has begun
RpcStart(echo) == RpcIs(RpcLocals(echo, FALSE))

RpcIdle == RpcStart(FALSE)

\* one RPC arrives at a started proxy
Init ==
    /\ \E engine \in {"go", "rust"} :
          Startup(engine, FullRegistry, ExampleRoutes, TRUE, TRUE, FALSE, FALSE)
    /\ wire = RpcFrames
    /\ fullMethodName \in {MSecureEcho, MSecureUp, MUnaryEcho}
    /\ RpcIdle
    /\ codec = CodecIdle
    /\ parked = NoRpc
    /\ ffi = FfiIdle
    /\ pmArgs = NoArgs /\ pmRes = NoTrace /\ pmPc = "idle" /\ pmFirst = NoTrace

Next ==
    \/ H_Method \/ H_Dial \/ H_NewStream \/ H_SpawnS2C \/ H_SpawnC2S
    \/ H_SelectS2C \/ H_SelectC2S \/ H_WaitS2C
    \/ S2C_Recv \/ S2C_Send \/ S2C_Report
    \/ C2S_Recv \/ C2S_Send \/ C2S_Report
    \/ ClientAbort \/ BackendEnd

Spec == Init /\ [][Next]_vars

----------------------------------------------------------------------------
(* The director at a proxy where the envelope processor cannot do its work: *)
(* SecureEcho RPCs whose frames do not decode or carry a signature the      *)
(* trusted key did not make, a signing engine that fails, a registry        *)
(* without the method, a route without a signature field, a re-encoding     *)
(* that fails.                                                              *)

\* a frame that does not decode; an envelope with a payload and a client
\* signature that does not verify
UndecodableFrame == <<F(0, << >>)>>
BadSigFrame == <<F(1, <<7>>), F(3, <<8>>)>>

\* a SecureEcho route whose envelope names no proxy signature field
UnsignableRoutes ==
    <<Route(MSecureEcho, "inspect-verify-sign",
            Env("payload", "type_url", "client_signature", ""))>>

\* engine, registry, routes, signing fails, re-encoding fails, frames on the wire
PumpScenarios ==
    {<<"rust", FullRegistry, ExampleRoutes, TRUE, FALSE, {UndecodableFrame, BadSigFrame}>>,
     <<"go", EmptyRegistry, ExampleRoutes, FALSE, FALSE, RpcFrames>>,
     <<"go", FullRegistry, UnsignableRoutes, FALSE, FALSE, RpcFrames>>,
     <<"go", FullRegistry, ExampleRoutes, FALSE, TRUE, RpcFrames>>}

InitPump ==
    /\ \E sc \in PumpScenarios :
          /\ Startup(sc[1], sc[2], sc[3], TRUE, TRUE, sc[4], sc[5])
          /\ wire = sc[6]
    /\ fullMethodName = MSecureEcho
    /\ RpcIdle
    /\ codec = CodecIdle
    /\ parked = NoRpc
    /\ ffi = FfiIdle
    /\ pmArgs = NoArgs /\ pmRes = NoTrace /\ pmPc = "idle" /\ pmFirst = NoTrace

SpecPump == InitPump /\ [][Next]_vars

----------------------------------------------------------------------------
(* The director under the scheduling the Go runtime gives: the handler     *)
(* goroutine and the two pump goroutines each take their next step when    *)
(* that step can be taken. A receive is such a step only when it does not  *)
(* wait for the peer: RecvMsg returns once its stream is over or its       *)
(* context is cancelled. Nothing makes the client or the backend act.      *)

\* the steps of the handler goroutine
Handler ==
    \/ H_Method \/ H_Dial \/ H_NewStream \/ H_SpawnS2C \/ H_SpawnC2S
    \/ H_SelectS2C \/ H_SelectC2S \/ H_WaitS2C

\* a receive that returns without a frame from the peer
S2C_RecvEnds == (ScopeDone \/ outbound.done # "no") /\ S2C_Recv
C2S_RecvEnds == InboundDead /\ C2S_Recv

Scheduling ==
    /\ WF_vars(Handler)
    /\ WF_vars(S2C_RecvEnds) /\ WF_vars(S2C_Send) /\ WF_vars(S2C_Report)
    /\ WF_vars(C2S_RecvEnds) /\ WF_vars(C2S_Send) /\ WF_vars(C2S_Report)

\* a SecureEcho RPC arrives at a started proxy
InitLive ==
    /\ Startup("go", FullRegistry, ExampleRoutes, TRUE, TRUE, FALSE, FALSE)
    /\ wire = RpcFrames
    /\ fullMethodName = MSecureEcho
    /\ RpcIdle
    /\ codec = CodecIdle
    /\ parked = NoRpc
    /\ ffi = FfiIdle
    /\ pmArgs = NoArgs /\ pmRes = NoTrace /\ pmPc = "idle" /\ pmFirst = NoTrace

SpecLive == InitLive /\ [][Next]_vars /\ Scheduling

----------------------------------------------------------------------------
(* The bidirectional scenario of the example client and backend            *)
(* (client main.go:47-85, backend main.go:59-78): the client sends its     *)
(* frames and half-closes, unless it goes away before; the backend is      *)
(* SecureBidiEcho. Besides the proxy's goroutines the client and the       *)
(* backend take their steps: a receive returns because the peer acts.      *)

InitBidi ==
    /\ \E engine \in {"go", "rust"} :
          Startup(engine, FullRegistry, ExampleRoutes, TRUE, TRUE, FALSE, FALSE)
    /\ wire = RpcFrames
    /\ fullMethodName \in {MSecureEcho, MSecureUp, MUnaryEcho}
    /\ RpcStart(TRUE)
    /\ codec = CodecIdle
    /\ parked = NoRpc
    /\ ffi = FfiIdle
    /\ pmArgs = NoArgs /\ pmRes = NoTrace /\ pmPc = "idle" /\ pmFirst = NoTrace

NextBidi ==
    \/ H_Method \/ H_Dial \/ H_NewStream \/ H_SpawnS2C \/ H_SpawnC2S
    \/ H_SelectS2C \/ H_SelectC2S \/ H_WaitS2C
    \/ S2C_Recv \/ S2C_Send \/ S2C_Report
    \/ C2S_Recv \/ C2S_Send \/ C2S_Report
    \/ ClientAbort \/ EchoEnd

\* C2S_Recv can be taken: the pump is in serverStream.RecvMsg, which returns a
\* frame, the half-close or an error
C2S_RecvReady == c2s.pc = "recv"

\* S2C_Recv can be taken: the pump is in clientStream.RecvMsg and the stream is
\* over, or cancelled, or holds a frame
S2C_RecvReady ==
    /\ s2c.pc = "recv"
    /\ \/ ScopeDone
       \/ outbound.done # "no"
       \/ Len(hist.s2cIn) < MaxFrames /\ BackendFrames # {}

\* the peers act: the client sends or half-closes, the backend answers or
\* returns. For the two receives this is WF_vars(C2S_Recv) and WF_vars(S2C_Recv),
\* written with the condition under which the receive can be taken: a receive
\* that is taken leaves "recv", so it is taken infinitely often or disabled
\* infinitely often exactly when it is not ready infinitely often.
PeersAct ==
    /\ []<>(~C2S_RecvReady)
    /\ []<>(~S2C_RecvReady)
    /\ WF_vars(EchoEnd)

SpecBidi == InitBidi /\ [][NextBidi]_vars /\ Scheduling /\ PeersAct

----------------------------------------------------------------------------
(* Two RPCs served at the same time, each with its own client and its own  *)
(* SecureBidiEcho stream at the backend: a SecureEcho RPC whose client may *)
(* go away, and an inspected RPC whose client stays. The steps of the two  *)
(* interleave in every way: one RPC steps, the other is set aside.         *)

\* what the client of the first and of the second RPC sends
FirstFrames == {<<F(1, <<7>>)>>}
SecondFrames == {<<F(1, <<9>>), F(2, <<120, 47, 83>>)>>}

InitPair ==
    /\ Startup("go", FullRegistry, ExampleRoutes, TRUE, TRUE, FALSE, FALSE)
    /\ wire = FirstFrames
    /\ fullMethodName = MSecureEcho
    /\ RpcStart(TRUE)
    /\ parked = [fullMethodName |-> MSecureUp, wire |-> SecondFrames]
                   @@ RpcLocals(TRUE, TRUE)
    /\ codec = CodecIdle
    /\ ffi = FfiIdle
    /\ pmArgs = NoArgs /\ pmRes = NoTrace /\ pmPc = "idle" /\ pmFirst = NoTrace

NextPair == NextBidi \/ Switch

SpecPair == InitPair /\ [][NextPair]_vars

----------------------------------------------------------------------------
(* Route matching on its own: the first step of the handler, for any       *)
(* method id, at a proxy configured with any short route list.             *)

\* patterns of a rule: "/s/E", "/e/U", "/s/*", "/e/*"
RoutePatterns ==
    {MSecureEcho, MUnaryEcho, <<47, 115>> \o SlashStar, <<47, 101>> \o SlashStar}

RouteChoices ==
    {Route(p, m, FullEnvelope) :
        p \in RoutePatterns, m \in {"inspect-outer", "inspect-verify-sign"}}

InitRoute ==
    /\ \E routes \in SeqsUpTo(RouteChoices, MaxRoutes) :
          Startup("go", FullRegistry, routes, TRUE, TRUE, FALSE, FALSE)
    /\ wire = RpcFrames
    /\ fullMethodName \in MethodIds
    /\ RpcIdle
    /\ codec = CodecIdle
    /\ parked = NoRpc
    /\ ffi = FfiIdle
    /\ pmArgs = NoArgs /\ pmRes = NoTrace /\ pmPc = "idle" /\ pmFirst = NoTrace

NextRoute == H_Method

SpecRoute == InitRoute /\ [][NextRoute]_vars

----------------------------------------------------------------------------
(* The envelope processor on its own: one call of processMsg on a frame,  *)
(* a route and a direction, at a proxy started in any configuration.       *)

\* a signature the trusted client key makes over payload <<7>>
ValidClientSig == SignPKCS1v15(2, Sha256(<<7>>))

\* wire fields a frame is made of: an illegal tag, a payload, two type URLs
\* ("x/S" names a registered message, "x/Z" none), a good and a bad client
\* signature, a proxy signature, a field no descriptor knows
WireFields ==
    {F(0, << >>), F(1, <<7>>), F(2, <<120, 47, 83>>), F(2, <<120, 47, 90>>),
     F(3, ValidClientSig), F(3, <<8>>), F(4, <<8>>), F(9, <<7>>)}

Frames == SeqsUpTo(WireFields, MaxFields)

Envelopes ==
    {FullEnvelope,
     Env("payload", "type_url", "client_signature", ""),
     Env("payload", "type_url", "client_signature", "type_url"),
     Env("payload", "type_url", "client_signature", "no_such_field"),
     Env("", "", "", "proxy_signature"),
     EmptyEnvelope}

\* the envelope and mode of the route; processMsg is called for every mode but
\* pass-thru (main.go:257, 275)
RouteKinds ==
    {<<"inspect-verify-sign", e>> : e \in Envelopes}
    \cup {<<"inspect-outer", FullEnvelope>>,
          <<"inspect-outer", Env("", "", "", "proxy_signature")>>,
          <<"", FullEnvelope>>}

\* registry, method id and direction of the call
Calls ==
    {<<FullRegistry, MSecureEcho, TRUE>>, <<FullRegistry, MSecureUp, TRUE>>,
     <<FullRegistry, MSecureUp, FALSE>>, <<FullRegistry, MUnaryEcho, TRUE>>,
     <<EmptyRegistry, MSecureEcho, FALSE>>, <<FullRegistry, MOther, TRUE>>}

\* signing and re-encoding succeed, signing fails, re-encoding fails
LibOutcomes(keyed) ==
    {<<FALSE, FALSE>>, <<FALSE, TRUE>>} \cup (IF keyed THEN {<<TRUE, FALSE>>} ELSE {})

InitMsg ==
    /\ \E engine \in {"go", "rust"}, trusted \in BOOLEAN, keyed \in BOOLEAN,
          kind \in RouteKinds, call \in Calls :
          \E lo \in LibOutcomes(keyed) :
             LET rt == Route(call[2], kind[1], kind[2])
             IN /\ Startup(engine, call[1], <<rt>>, trusted, keyed, lo[1], lo[2])
                /\ \E payload \in Frames :
                      pmArgs = [method |-> call[2], isReq |-> call[3],
                                payload |-> payload, rt |-> rt]
    /\ wire = RpcFrames
    /\ pmRes = NoTrace
    /\ pmFirst = NoTrace
    /\ pmPc = "ready"
    /\ fullMethodName = pmArgs.method
    /\ RpcIdle
    /\ codec = CodecIdle
    /\ parked = NoRpc
    /\ ffi = FfiIdle

\* payload = processMsg(fullMethodName, isReq, payload, route)
PM_Call ==
    /\ pmPc = "ready"
    /\ pmRes' = processMsgTrace(pmArgs.method, pmArgs.isReq, pmArgs.payload, pmArgs.rt)
    /\ pmPc' = "done"
    /\ UNCHANGED <<globals, parked, pmArgs, pmFirst, rpcVars>>

NextMsg == PM_Call

SpecMsg == InitMsg /\ [][NextMsg]_vars

----------------------------------------------------------------------------
(* Two runs of one processMsg call under inspect-verify-sign that differ   *)
(* only in the client key the trust store holds: key 2 in the first run,   *)
(* key 4 in the second.                                                    *)

\* the certificate pool and the public key PEM of the second run
OtherTrustPool == <<4>>

InitTwin ==
    /\ \E engine \in {"go", "rust"}, keyed \in BOOLEAN, e \in Envelopes, call \in Calls :
          \E lo \in LibOutcomes(keyed) :
             LET rt == Route(call[2], "inspect-verify-sign", e)
             IN /\ Startup(engine, call[1], <<rt>>, TRUE, keyed, lo[1], lo[2])
                /\ \E payload \in Frames :
                      pmArgs = [method |-> call[2], isReq |-> call[3],
                                payload |-> payload, rt |-> rt]
    /\ wire = RpcFrames
    /\ pmRes = NoTrace
    /\ pmFirst = NoTrace
    /\ pmPc = "ready"
    /\ fullMethodName = pmArgs.method
    /\ RpcIdle
    /\ codec = CodecIdle
    /\ parked = NoRpc
    /\ ffi = FfiIdle

\* the proxy is started again with the other client's certificate in the trust
\* store (main.go:141-160); the result of the first run is kept
PM_Retrust ==
    /\ pmPc = "done"
    /\ clientTrustPool' = OtherTrustPool
    /\ clientPublicKeyPEM' = PubPEM(OtherTrustPool[1])
    /\ pmFirst' = pmRes
    /\ pmPc' = "ready-twin"
    /\ UNCHANGED <<methodDescriptors, appConfig, proxyPrivateKey, proxyPrivateKeyPEM,
                   cryptoEngine, lib, wire, codec, ffi, parked, pmArgs, pmRes,
                   rpcVars>>

\* the same call of processMsg, second run
PM_Twin ==
    /\ pmPc = "ready-twin"
    /\ pmRes' = processMsgTrace(pmArgs.method, pmArgs.isReq, pmArgs.payload, pmArgs.rt)
    /\ pmPc' = "twin-done"
    /\ UNCHANGED <<globals, parked, pmArgs, pmFirst, rpcVars>>

NextTwin == PM_Call \/ PM_Retrust \/ PM_Twin

SpecTwin == InitTwin /\ [][NextTwin]_vars

----------------------------------------------------------------------------
(* Two runs of one processMsg call that differ only in crypto.engine       *)
(* (main.go:121, 359): the Go engine in the first run, the Rust engine in   *)
(* the second. Signing itself succeeds in both runs.                       *)

InitEngines ==
    /\ \E trusted \in BOOLEAN, keyed \in BOOLEAN, kind \in RouteKinds, call \in Calls,
          marshalFails \in BOOLEAN :
             LET rt == Route(call[2], kind[1], kind[2])
             IN /\ Startup("go", call[1], <<rt>>, trusted, keyed, FALSE, marshalFails)
                /\ \E payload \in Frames :
                      pmArgs = [method |-> call[2], isReq |-> call[3],
                                payload |-> payload, rt |-> rt]
    /\ wire = RpcFrames
    /\ pmRes = NoTrace
    /\ pmFirst = NoTrace
    /\ pmPc = "ready"
    /\ fullMethodName = pmArgs.method
    /\ RpcIdle
    /\ codec = CodecIdle
    /\ parked = NoRpc
    /\ ffi = FfiIdle

\* the proxy is started again with -crypto rust (main.go:118-121);
\* the result of the first run is kept
PM_OtherEngine ==
    /\ pmPc = "done"
    /\ cryptoEngine' = "rust"
    /\ pmFirst' = pmRes
    /\ pmPc' = "ready-twin"
    /\ UNCHANGED <<methodDescriptors, appConfig, clientTrustPool, proxyPrivateKey,
                   clientPublicKeyPEM, proxyPrivateKeyPEM, lib, wire, codec, ffi, parked,
                   pmArgs,
                   pmRes, rpcVars>>

NextEngines == PM_Call \/ PM_OtherEngine \/ PM_Twin

SpecEngines == InitEngines /\ [][NextEngines]_vars

----------------------------------------------------------------------------
(* Sign, then verify: processMsg signs a payload with the proxy key, and   *)
(* the payload comes back in a frame that carries that signature as its    *)
(* client signature while the trust store holds the proxy's own            *)
(* certificate, so that the public key given to verify is the one derived  *)
(* from the signing key.                                                   *)

\* payloads of the round trip, the empty one included
RoundPayloads == SeqsUpTo({7, 8, 9}, MaxFields)

InitRound ==
    /\ \E engine \in {"go", "rust"}, signFails \in BOOLEAN, p \in RoundPayloads :
          LET rt == Route(MSecureEcho, "inspect-verify-sign", FullEnvelope)
          IN /\ cryptoEngine = engine
             /\ methodDescriptors = FullRegistry
             /\ appConfig = [Routes |-> <<rt>>]
             /\ proxyPrivateKey = <<3>>
             /\ proxyPrivateKeyPEM = PrivPEM(3)
             /\ clientTrustPool = proxyPrivateKey
             /\ clientPublicKeyPEM = PubPEM(proxyPrivateKey[1])
             /\ lib = [signFails |-> signFails, marshalFails |-> FALSE]
             /\ pmArgs = [method |-> MSecureEcho, isReq |-> TRUE,
                          payload |-> <<F(1, p)>>, rt |-> rt]
    /\ wire = RpcFrames
    /\ pmRes = NoTrace
    /\ pmFirst = NoTrace
    /\ pmPc = "ready"
    /\ fullMethodName = pmArgs.method
    /\ RpcIdle
    /\ codec = CodecIdle
    /\ parked = NoRpc
    /\ ffi = FfiIdle

\* the next frame holds the same payload and, as client_signature, the
\* signature the first call produced
PM_Resubmit ==
    /\ pmPc = "done"
    /\ pmArgs' = [pmArgs EXCEPT !.payload = pmArgs.payload \o <<F(3, pmRes.proxySig)>>]
    /\ pmFirst' = pmRes
    /\ pmPc' = "ready-twin"
    /\ UNCHANGED <<globals, parked, pmRes, rpcVars>>

NextRound == PM_Call \/ PM_Resubmit \/ PM_Twin

SpecRound == InitRound /\ [][NextRound]_vars

----------------------------------------------------------------------------
(* One frame through processMsg in both directions of a method: as a       *)
(* request first, as a response second.                                    *)

InitDirections ==
    /\ \E engine \in {"go", "rust"}, keyed \in BOOLEAN, kind \in RouteKinds,
          method \in {MSecureEcho, MSecureUp, MUnaryEcho} :
             LET rt == Route(method, kind[1], kind[2])
             IN /\ Startup(engine, FullRegistry, <<rt>>, TRUE, keyed, FALSE, FALSE)
                /\ \E payload \in Frames :
                      pmArgs = [method |-> method, isReq |-> TRUE,
                                payload |-> payload, rt |-> rt]
    /\ wire = RpcFrames
    /\ pmRes = NoTrace
    /\ pmFirst = NoTrace
    /\ pmPc = "ready"
    /\ fullMethodName = pmArgs.method
    /\ RpcIdle
    /\ codec = CodecIdle
    /\ parked = NoRpc
    /\ ffi = FfiIdle

\* the backend-to-client pump gets the same bytes (main.go:257-259: isReq false)
PM_Reverse ==
    /\ pmPc = "done"
    /\ pmArgs' = [pmArgs EXCEPT !.isReq = FALSE]
    /\ pmFirst' = pmRes
    /\ pmPc' = "ready-twin"
    /\ UNCHANGED <<globals, parked, pmRes, rpcVars>>

NextDirections == PM_Call \/ PM_Reverse \/ PM_Twin

SpecDirections == InitDirections /\ [][NextDirections]_vars

----------------------------------------------------------------------------
(* One frame through bytesCodec: Unmarshal into a handle, the transport    *)
(* reusing its buffer, Marshal of the handle; the handle is a *[]byte or,  *)
(* by a programming error, a []byte.                                       *)

InitCodec ==
    /\ Startup("go", EmptyRegistry, << >>, FALSE, FALSE, FALSE, FALSE)
    /\ wire = RpcFrames
    /\ pmArgs = NoArgs
    /\ pmRes = NoTrace
    /\ pmFirst = NoTrace
    /\ pmPc = "idle"
    /\ fullMethodName = << >>
    /\ RpcIdle
    /\ parked = NoRpc
    /\ ffi = FfiIdle
    /\ \E data \in CodecBytes, held \in {<< >>, <<9>>}, type \in {"*[]byte", "[]byte"} :
          LET v == [type |-> type, ref |-> HandleBuf]
          IN codec = [CodecIdle EXCEPT !.pc = "ready", !.heap[TransportBuf] = data,
                                       !.heap[HandleBuf] = held, !.v = v, !.v0 = v,
                                       !.wire0 = data, !.held0 = held]

NextCodec == CD_Unmarshal \/ CD_Reuse \/ CD_Marshal

SpecCodec == InitCodec /\ [][NextCodec]_vars

----------------------------------------------------------------------------
(* One call of RustSignPayload, as processMsg makes it under the Rust      *)
(* engine (main.go:376), for payloads and keys that are empty or not.      *)

InitFfi ==
    /\ Startup("rust", EmptyRegistry, << >>, FALSE, TRUE, FALSE, FALSE)
    /\ wire = RpcFrames
    /\ pmArgs = NoArgs
    /\ pmRes = NoTrace
    /\ pmFirst = NoTrace
    /\ pmPc = "idle"
    /\ fullMethodName = << >>
    /\ RpcIdle
    /\ codec = CodecIdle
    /\ parked = NoRpc
    /\ \E payload \in CodecBytes, key \in {<< >>, PrivPEM(2), PrivPEM(3)} :
          ffi = [FfiIdle EXCEPT !.pc = "entry", !.payload = payload, !.privKeyPEM = key]

NextFfi == RSP_Check \/ RSP_Call \/ RSP_Test \/ RSP_Copy \/ RSP_Free \/ RSP_Return

SpecFfi == InitFfi /\ [][NextFfi]_vars

----------------------------------------------------------------------------
(* Two runs of one processMsg call that differ only in the descriptors the *)
(* registry holds for the other methods, and so in what the suffix lookup  *)
(* of the inner-payload block finds.                                       *)

\* wire fields of the frames: a payload that decodes and one that does not, type
\* URLs whose last part names the request of UnaryEcho ("x/Q"), no message
\* ("x/Z") or every message ("x/"), a client signature
InnerFields ==
    {F(1, <<7>>), F(1, <<0>>), F(2, <<120, 47, 81>>), F(2, <<120, 47, 90>>),
     F(2, <<120, 47>>), F(3, <<8>>)}

InnerFrames == SeqsUpTo(InnerFields, MaxFields)

\* the registry a descriptor set with the methods ms gives
RegistryOf(ms) == [m \in ms |-> FullRegistry[m]]

Registries == {RegistryOf(ms) : ms \in SUBSET (DOMAIN FullRegistry)}

InnerRouteKinds ==
    {<<"inspect-verify-sign", FullEnvelope>>,
     <<"inspect-verify-sign", Env("payload", "type_url", "client_signature", "")>>,
     <<"inspect-outer", FullEnvelope>>}

InitInner ==
    /\ \E keyed \in BOOLEAN, kind \in InnerRouteKinds, registry \in Registries,
          method \in DOMAIN FullRegistry :
          LET rt == Route(method, kind[1], kind[2])
          IN /\ Startup("go", registry, <<rt>>, TRUE, keyed, FALSE, FALSE)
             /\ \E payload \in InnerFrames :
                   pmArgs = [method |-> method, isReq |-> TRUE,
                             payload |-> payload, rt |-> rt]
    /\ wire = RpcFrames
    /\ pmRes = NoTrace
    /\ pmFirst = NoTrace
    /\ pmPc = "ready"
    /\ fullMethodName = pmArgs.method
    /\ RpcIdle
    /\ codec = CodecIdle
    /\ parked = NoRpc
    /\ ffi = FfiIdle

\* the proxy is started again with another descriptor set (main.go:468-496) that
\* describes the method of the call as before; the result of the first run is kept
PM_Reregister ==
    /\ pmPc = "done"
    /\ \E registry \in Registries :
          /\ (pmArgs.method \in DOMAIN registry) = (pmArgs.method \in DOMAIN methodDescriptors)
          /\ methodDescriptors' = registry
    /\ pmFirst' = pmRes
    /\ pmPc' = "ready-twin"
    /\ UNCHANGED <<appConfig, clientTrustPool, proxyPrivateKey, clientPublicKeyPEM,
                   proxyPrivateKeyPEM, cryptoEngine, lib, wire, codec, ffi, parked,
                   pmArgs, pmRes, rpcVars>>

NextInner == PM_Call \/ PM_Reregister \/ PM_Twin

SpecInner == InitInner /\ [][NextInner]_vars

----------------------------------------------------------------------------
(* SecureEcho RPCs at a proxy whose configuration gives the method's route *)
(* one of the modes a route can be written with: the three the proxy       *)
(* knows, the empty string (no mode key in the YAML) and a mode it does    *)
(* not know.                                                               *)

RouteModes == {"pass-thru", "inspect-outer", "inspect-verify-sign", "", "audit"}

InitModes ==
    /\ \E mode \in RouteModes :
          Startup("go", FullRegistry, <<Route(MSecureEcho, mode, FullEnvelope)>>,
                  TRUE, TRUE, FALSE, FALSE)
    /\ wire = RpcFrames
    /\ fullMethodName = MSecureEcho
    /\ RpcIdle
    /\ codec = CodecIdle
    /\ parked = NoRpc
    /\ ffi = FfiIdle
    /\ pmArgs = NoArgs /\ pmRes = NoTrace /\ pmPc = "idle" /\ pmFirst = NoTrace

SpecModes == InitModes /\ [][Next]_vars

----------------------------------------------------------------------------
(* Claims *)

\* the transform the director is to apply to a frame of one direction
Forwarded(isReq, f) ==
    IF route.Mode = "pass-thru" THEN f ELSE processMsg(fullMethodName, isReq, f, route)

\* the frame a pump holds between its receive and its send is the last one received
HoldsLastVerbatim(pump, in) ==
    pump.pc = "send" => Len(in) > 0 /\ pump.payload = in[Len(in)]

\* C1: on an RPC whose matched route has mode pass-thru, processMsg is never
\* invoked and every frame forwarded, in either direction, is the frame received,
\* byte for byte.
C1_PassThruVerbatim ==
    route.Mode = "pass-thru" =>
        /\ procCalls = 0
        /\ IsPrefixOf(hist.c2sOut, hist.c2sIn)
        /\ IsPrefixOf(hist.s2cOut, hist.s2cIn)
        /\ HoldsLastVerbatim(c2s, hist.c2sIn)
        /\ HoldsLastVerbatim(s2c, hist.s2cIn)

\* a pass-thru RPC that has forwarded frames both ways
C1_Witness ==
    /\ route.Mode = "pass-thru"
    /\ Len(hist.c2sOut) >= 1
    /\ Len(hist.s2cOut) >= 1

\* C2: on a route of mode inspect-outer processMsg returns exactly the input
\* bytes, whether or not a descriptor exists, the bytes decode, or the inner
\* payload lookup succeeds.
C2_InspectOuterReturnsInput ==
    (pmPc = "done" /\ pmArgs.rt.Mode = "inspect-outer") => pmRes.out = pmArgs.payload

\* an inspect-outer call that decoded a frame a re-encoding would change and
\* found the inner descriptor
C2_Witness ==
    /\ pmPc = "done"
    /\ pmArgs.rt.Mode = "inspect-outer"
    /\ pmRes.stage = "inspected"
    /\ pmRes.innerFound
    /\ Marshal(pmRes.msg[1]) # pmArgs.payload

\* the call of processMsg under inspect-verify-sign has returned
PmSigned == pmPc = "done" /\ pmArgs.rt.Mode = "inspect-verify-sign"

\* the input bytes decode against the descriptor of the call's direction
PmDecodes == pmArgs.method \in DOMAIN methodDescriptors /\ ~UnmarshalFails(pmArgs.payload)
PmDesc ==
    IF pmArgs.isReq THEN methodDescriptors[pmArgs.method].input
    ELSE methodDescriptors[pmArgs.method].output

\* the input message, the message the forwarded bytes decode to, and the input's
\* payload field
PmIn == Unmarshal(PmDesc, pmArgs.payload)
PmFwd == Unmarshal(PmDesc, pmRes.out)
PmPayload == getBytesField(PmIn, pmArgs.rt.Envelope.PayloadField)

\* the numbers of the fields of the descriptor called as proxy_sig_field says
PmSigNums == {f.num : f \in FieldByName(PmDesc, pmArgs.rt.Envelope.ProxySigField)}

\* two messages agree on the unknown fields and on every known field but nums
EqualExcept(a, b, nums) ==
    /\ a.unknown = b.unknown
    /\ \A n \in KnownNums(a.desc) \ nums : a.values[n] = b.values[n]

\* C3 as stated: under inspect-verify-sign a frame that decodes is forwarded as a
\* message equal to the input in every field except the one named by
\* envelope.proxy_sig_field, and that field equals
\* sign(payload field bytes, proxy private key).
C3_SignedExceptSigField ==
    (PmSigned /\ PmDecodes) =>
        /\ ~UnmarshalFails(pmRes.out)
        /\ EqualExcept(PmIn, PmFwd, PmSigNums)
        /\ proxyPrivateKey # << >>
        /\ \E n \in PmSigNums :
              PmFwd.values[n] = SignPKCS1v15(proxyPrivateKey[1], Sha256(PmPayload))

\* what the selected engine hands back for the payload: the signature, the mock
\* when no key is loaded, nothing when signing fails or the foreign engine is
\* given an empty payload
PmEngineOutput ==
    IF proxyPrivateKey = << >> THEN ProxySignedPrefix \o PmPayload
    ELSE IF lib.signFails \/ (cryptoEngine = "rust" /\ PmPayload = << >>) THEN << >>
    ELSE SignPKCS1v15(proxyPrivateKey[1], Sha256(PmPayload))

\* C3 amended: under inspect-verify-sign a frame that decodes is forwarded, when
\* the write into proxy_sig_field and the re-encoding succeed, as a message equal
\* to the input in every field except that one, which holds what the engine
\* returned for the payload; otherwise it is forwarded unchanged.
C3_SignedOrUnchanged ==
    (PmSigned /\ PmDecodes) =>
        IF ~TrySetFails(PmIn, pmArgs.rt.Envelope.ProxySigField, PmEngineOutput)
           /\ ~lib.marshalFails
        THEN /\ ~UnmarshalFails(pmRes.out)
             /\ EqualExcept(PmIn, PmFwd, PmSigNums)
             /\ \A n \in PmSigNums : PmFwd.values[n] = PmEngineOutput
        ELSE pmRes.out = pmArgs.payload

\* a frame with a payload, signed with the loaded key, whose bytes changed
C3_Witness ==
    /\ PmSigned /\ PmDecodes
    /\ proxyPrivateKey # << >>
    /\ PmPayload = <<7>>
    /\ 4 \in PmSigNums
    /\ PmFwd.values[4] = SignPKCS1v15(3, Sha256(<<7>>))
    /\ pmRes.out # pmArgs.payload

\* a step of inspect-verify-sign failed: the decode, the write of the signature,
\* the re-encoding, or the signing with the loaded key (an error of the native
\* engine, none from the foreign one)
PmFailure ==
    \/ pmRes.stage \in {"unmarshal-error", "set-error", "marshal-error"}
    \/ /\ pmRes.stage = "re-serialized"
       /\ proxyPrivateKey # << >>
       /\ pmRes.proxySig = << >>

\* C4: under inspect-verify-sign, when the decode, a field write, the signing or
\* the re-encoding fails, processMsg returns the input frame byte for byte; a
\* signing failure never yields a re-serialized message.
C4_FailureReturnsInput ==
    (PmSigned /\ PmFailure) => pmRes.out = pmArgs.payload

\* the frames of in, each transformed as the director is to transform it
ForwardedAll(isReq, in) == [i \in 1..Len(in) |-> Forwarded(isReq, in[i])]

C6_HalfCloseExactlyOnce ==
    (hist.halfClose /\ hpc = "done") =>
        /\ closeSends = 1
        /\ hist.sentAtClose = Len(hist.c2sIn)

\* C6 amended: CloseSend is called at most once per RPC, exactly when the handler
\* takes a clean end-of-stream from the c2s channel; when the inbound stream
\* reported the half-close, every frame received from the client was sent before
\* the call; and if the handler takes the s2c report first it returns without
\* calling CloseSend.
C6_HalfCloseAtMostOnce ==
    /\ closeSends <= 1
    /\ closeSends = 1 <=> hist.c2sTaken = "EOF"
    /\ (hist.halfClose /\ closeSends = 1) =>
          /\ hist.sentAtClose = Len(hist.c2sIn)
          /\ hist.c2sOut = ForwardedAll(TRUE, hist.c2sIn)
    /\ (hist.halfClose /\ hpc = "done" /\ closeSends = 0) =>
          hist.s2cTaken # "" /\ hist.c2sTaken = ""

\* the client sent frames and half-closed, and the handler half-closed the backend
C6_Witness ==
    /\ hist.halfClose
    /\ closeSends = 1
    /\ Len(hist.c2sIn) >= 2
    /\ hpc = "done"

\* C7 as stated: after the c2s pump reports clean end-of-stream the handler
\* half-closes the outbound stream, does not cancel the scope and does not return
\* until the s2c pump reports, and returns success exactly when that report is
\* clean end-of-stream.
C7_HalfCloseThenDrain ==
    /\ clientCtx = "cancelled" => hpc = "done"
    /\ (hist.c2sReport = "EOF" /\ ~hist.c2sLate /\ hpc = "done") =>
          /\ closeSends = 1
          /\ hist.s2cTaken # ""
          /\ retStatus = "OK" <=> hist.s2cTaken = "EOF"

\* C7 amended: after the c2s pump reports clean end-of-stream the handler does not
\* cancel the scope and does not return until the s2c pump has reported, and
\* returns success exactly when that report is clean end-of-stream; it half-closes
\* the outbound stream and waits, the s2c pump forwarding meanwhile, if it takes
\* the c2s report, and returns without a half-close if it takes the s2c report
\* first.
C7_DrainAfterEndOfStream ==
    /\ clientCtx = "cancelled" => hpc = "done"
    /\ hpc = "wait_s2c" =>
          /\ closeSends = 1
          /\ clientCtx = "live"
          /\ hist.c2sTaken = "EOF"
          /\ hist.s2cTaken = ""
    /\ (hist.c2sReport = "EOF" /\ ~hist.c2sLate /\ hpc = "done") =>
          /\ hist.s2cTaken # ""
          /\ retStatus = "OK" <=> hist.s2cTaken = "EOF"
          /\ closeSends = 1 <=> hist.c2sTaken = "EOF"

\* after the half-close the s2c pump forwarded a frame, then the backend ended the
\* stream cleanly and the handler returned success
C7_Witness ==
    /\ hpc = "done"
    /\ hist.halfClose
    /\ closeSends = 1
    /\ retStatus = "OK"
    /\ Len(hist.s2cOut) > hist.fwdAtClose

\* a report is an error, not clean end-of-stream
IsError(report) == report \notin {"", "EOF"}

\* C8 as stated: if either pump reports a terminal condition other than clean
\* end-of-stream, the handler cancels the scope and returns that error as the RPC
\* status, under every interleaving of the two reports.
C8_ReportedErrorIsStatus ==
    hpc = "done" =>
        /\ (IsError(hist.s2cReport) /\ ~hist.s2cLate) =>
              clientCtx = "cancelled" /\ retStatus = hist.s2cReport
        /\ (IsError(hist.c2sReport) /\ ~hist.c2sLate) =>
              clientCtx = "cancelled" /\ retStatus = hist.c2sReport

\* C8 amended: if the handler takes from an error channel a terminal condition
\* other than clean end-of-stream (in the select, or from the s2c channel after the
\* half-close), it cancels the scope and returns that error as the RPC status; a
\* status that is not success comes from a report the handler took; a report it
\* never takes does not become the status.
C8_TakenErrorIsStatus ==
    /\ IsError(hist.s2cTaken) =>
          hpc = "done" /\ clientCtx = "cancelled" /\ retStatus = hist.s2cTaken
    /\ IsError(hist.c2sTaken) =>
          hpc = "done" /\ clientCtx = "cancelled" /\ retStatus = hist.c2sTaken
    /\ (hpc = "done" /\ streams = 1) => clientCtx = "cancelled"
    /\ (hpc = "done" /\ c2s.pc # "idle" /\ retStatus # "OK") =>
          /\ IsError(retStatus)
          /\ retStatus \in {hist.s2cTaken, hist.c2sTaken}
    /\ (hpc = "done" /\ c2s.pc # "idle" /\ retStatus = "OK") =>
          hist.s2cTaken = "EOF" /\ hist.c2sTaken \in {"", "EOF"}

\* the backend failed the stream after the client's half-close and its error came
\* back as the status, the c2s pump's earlier report being clean
C8_Witness ==
    /\ hpc = "done"
    /\ hist.c2sTaken = "EOF"
    /\ hist.s2cTaken = "ErrBackend"
    /\ retStatus = "ErrBackend"
    /\ clientCtx = "cancelled"

\* C9 as stated: the handler returns, cancelling the scope and closing the backend
\* connection, only after both pumps have reported terminal status on their error
\* channels.
C9_BothPumpsReported ==
    (hpc = "done" /\ c2s.pc # "idle") =>
        /\ hist.s2cReport # "" /\ ~hist.s2cLate
        /\ hist.c2sReport # "" /\ ~hist.c2sLate

\* C9 amended: the handler returns only after at least one pump has reported
\* terminal status: the s2c pump, or the c2s pump with a condition other than clean
\* end-of-stream; it does not wait for the other pump.
C9_OnePumpReported ==
    (hpc = "done" /\ c2s.pc # "idle") =>
        \/ hist.s2cTaken # "" /\ hist.s2cReport = hist.s2cTaken /\ ~hist.s2cLate
        \/ IsError(hist.c2sTaken) /\ hist.c2sReport = hist.c2sTaken /\ ~hist.c2sLate

\* the handler has returned on the s2c report while the c2s pump is still receiving
C9_Witness ==
    /\ hpc = "done"
    /\ hist.s2cTaken # ""
    /\ c2s.pc = "recv"
    /\ hist.c2sReport = ""

\* C10 as stated: for every inbound RPC the handler opens exactly one outbound
\* client stream, and by its return the stream's scope is cancelled and the backend
\* connection closed.
C10_ExactlyOneStream ==
    hpc = "done" =>
        /\ streams = 1
        /\ clientCtx = "cancelled"
        /\ conn = "closed"

\* C10 amended: the handler opens at most one outbound client stream per inbound
\* RPC, exactly one unless the method id, the dial or the stream open fails; by its
\* return, on every path, a scope that was created is cancelled and a connection
\* that was dialled is closed.
C10_AtMostOneStream ==
    /\ streams <= 1
    /\ (s2c.pc # "idle" \/ c2s.pc # "idle") => streams = 1
    /\ hpc = "done" =>
          /\ conn # "open"
          /\ clientCtx # "live"
          /\ streams = 1 => clientCtx = "cancelled" /\ conn = "closed"
          /\ streams = 0 => retStatus \in {"Internal", "ErrDial", "ErrStream"}
          /\ conn = "none" => retStatus \in {"Internal", "ErrDial"}

\* an RPC that ran to a clean end with its one stream cancelled and closed
C10_Witness ==
    /\ hpc = "done"
    /\ retStatus = "OK"
    /\ streams = 1
    /\ clientCtx = "cancelled"
    /\ conn = "closed"
    /\ Len(hist.c2sOut) >= 1

\* what processMsg did on the i-th frame of in
StageOf(isReq, in, i) == processMsgTrace(fullMethodName, isReq, in[i], route)

\* C11: no outcome of the envelope processor makes a pump report: the pump hands
\* every frame of an inspected route to processMsg, holds a frame to send after
\* each, and stops only on what a stream receive or send returned; a pump that
\* stopped with a frame unsent stopped on the send.
C11_ProcessingNeverStopsPump ==
    /\ s2c.err \in {"", "EOF", "Canceled", "ErrBackend", "ErrClientSend"}
    /\ c2s.err \in {"", "EOF", "ErrClientRecv"}
    /\ route.Mode \notin {"", "pass-thru"} =>
          procCalls = Len(hist.c2sIn) + Len(hist.s2cIn)
    /\ Len(hist.c2sIn) > Len(hist.c2sOut) =>
          \/ c2s.pc = "send" /\ c2s.payload = Forwarded(TRUE, hist.c2sIn[Len(hist.c2sIn)])
          \/ /\ c2s.pc \in {"report", "done"}
             /\ c2s.err = "EOF"
             /\ ScopeDone \/ outbound.done # "no"
    /\ Len(hist.s2cIn) > Len(hist.s2cOut) =>
          \/ s2c.pc = "send" /\ s2c.payload = Forwarded(FALSE, hist.s2cIn[Len(hist.s2cIn)])
          \/ /\ s2c.pc \in {"report", "done"}
             /\ s2c.err = "ErrClientSend"
             /\ InboundDead

\* the client's first frame did not decode, its second failed verification and
\* signing; both were sent on and the pump is receiving again
C11_Witness ==
    /\ Len(hist.c2sOut) >= 2
    /\ StageOf(TRUE, hist.c2sIn, 1).stage = "unmarshal-error"
    /\ StageOf(TRUE, hist.c2sIn, 2).verifyCalled
    /\ ~StageOf(TRUE, hist.c2sIn, 2).verifyOk
    /\ StageOf(TRUE, hist.c2sIn, 2).signCalled
    /\ StageOf(TRUE, hist.c2sIn, 2).proxySig = << >>
    /\ c2s.pc = "recv"
    /\ c2s.err = ""

\* the two runs have both returned and verification was attempted in both
PmTwinVerified == pmPc = "twin-done" /\ pmFirst.verifyCalled /\ pmRes.verifyCalled

\* C12: under inspect-verify-sign the forwarded frame does not depend on the
\* result of the client-signature verification: two runs of the same call that
\* differ only in whether verification succeeds return the same bytes, having gone
\* the same way through processMsg.
C12_VerdictDoesNotChangeFrame ==
    pmPc = "twin-done" =>
        /\ pmRes.out = pmFirst.out
        /\ pmRes.stage = pmFirst.stage
        /\ pmRes.proxySig = pmFirst.proxySig

\* verification succeeded in the first run and failed in the second, and the frame
\* was signed and re-serialized in both
C12_Witness ==
    /\ PmTwinVerified
    /\ pmFirst.verifyOk
    /\ ~pmRes.verifyOk
    /\ pmRes.stage = "re-serialized"
    /\ pmRes.out # pmArgs.payload
    /\ pmRes.proxySig # << >>

\* the handler has matched the method id against the route list
Matched == hpc = "dial"

\* C13: a rule whose pattern is S followed by "/*" is matched only by a method id
\* that starts with S followed by "/": "/foo.Bar/*" matches "/foo.Bar/Baz" and not
\* "/foo.Barnacle/Baz".
C13_WildcardStopsAtSlash ==
    (Matched /\ HasSuffix(route.Match, SlashStar)) =>
        HasPrefix(fullMethodName, TrimSuffix(route.Match, <<42>>))

\* the pattern covers the method id: the id begins with the pattern less its
\* trailing "/*", or equals a pattern that has none
PatternCovers(pattern, id) ==
    IF Len(pattern) >= 2 /\ pattern[Len(pattern) - 1] = 47 /\ pattern[Len(pattern)] = 42
    THEN /\ Len(id) >= Len(pattern) - 2
         /\ \A k \in 1..(Len(pattern) - 2) : id[k] = pattern[k]
    ELSE pattern = id

\* the rules of the route list that cover the method id of the RPC
Covering == {i \in 1..Len(appConfig.Routes) :
                PatternCovers(appConfig.Routes[i].Match, fullMethodName)}

\* C14: matchRoute returns the rule with the smallest index among the rules that
\* match the method id; a later matching rule is never returned when an earlier
\* one matches.
C14_FirstMatchWins ==
    Matched =>
        \A i \in Covering : (\A j \in Covering : i <= j) => route = appConfig.Routes[i]

\* two different rules match the method id, an exact one after a wildcard, and
\* the first was returned
C14_Witness ==
    /\ Matched
    /\ Covering = {1, 2}
    /\ appConfig.Routes[1] # appConfig.Routes[2]
    /\ appConfig.Routes[2].Match = fullMethodName
    /\ route = appConfig.Routes[1]

\* C15: when no configured rule matches the method id, and in particular when the
\* route list is empty, matchRoute returns a rule with mode pass-thru and all
\* envelope field names empty.
C15_DefaultIsPassThru ==
    (Matched /\ Covering = {}) =>
        /\ route.Mode = "pass-thru"
        /\ route.Envelope = EmptyEnvelope
        /\ route.Match = << >>

\* a route list with rules none of which matches the method id
C15_Witness ==
    /\ Matched
    /\ Len(appConfig.Routes) >= 2
    /\ Covering = {}
    /\ route.Mode = "pass-thru"

\* a pump has been started or a frame has been received or forwarded
Pumping ==
    \/ s2c.pc # "idle" \/ c2s.pc # "idle"
    \/ hist.c2sIn # << >> \/ hist.s2cIn # << >>
    \/ hist.c2sOut # << >> \/ hist.s2cOut # << >>

\* C16: no pump is started and no frame is received or forwarded unless the method
\* id was resolved, the dial succeeded and the outbound stream was opened; without
\* a method id the handler returns Internal before matching a route or dialing; a
\* failed dial or a failed stream open is returned as the RPC status.
C16_NoPumpWithoutStream ==
    /\ Pumping => route.Mode # "" /\ conn # "none" /\ streams = 1
    /\ retStatus \in {"Internal", "ErrDial", "ErrStream"} => hpc = "done" /\ ~Pumping
    /\ retStatus = "Internal" => route.Mode = "" /\ conn = "none" /\ streams = 0
    /\ (hpc = "done" /\ route.Mode = "") => retStatus = "Internal"
    /\ (hpc = "done" /\ route.Mode # "" /\ conn = "none") =>
          retStatus = "ErrDial" /\ streams = 0
    /\ (hpc = "done" /\ conn # "none" /\ streams = 0) =>
          retStatus = "ErrStream" /\ conn = "closed"

\* the dial succeeded, the stream open failed, and the handler returned that error
\* with no pump started
C16_Witness ==
    /\ hpc = "done"
    /\ retStatus = "ErrStream"
    /\ conn = "closed"
    /\ route.Mode # ""
    /\ ~Pumping

\* C17: for any mode but pass-thru and either direction, when the registry has no
\* descriptor for the method id, processMsg returns the input bytes unchanged and
\* attempts no decode, no verification and no signing.
C17_NoDescriptorReturnsInput ==
    (pmPc = "done" /\ pmArgs.method \notin DOMAIN methodDescriptors) =>
        /\ pmRes.out = pmArgs.payload
        /\ pmRes.stage = "no-descriptor"
        /\ pmRes.msg = << >>
        /\ ~pmRes.innerLookup
        /\ ~pmRes.verifyCalled
        /\ ~pmRes.signCalled
        /\ pmRes.proxySig = << >>

\* a request of a method the registry does not know, on a signing route, whose
\* bytes are an envelope that signing would have changed
C17_Witness ==
    /\ pmPc = "done"
    /\ pmArgs.method \notin DOMAIN methodDescriptors
    /\ DOMAIN methodDescriptors # {}
    /\ pmArgs.isReq
    /\ pmArgs.rt.Mode = "inspect-verify-sign"
    /\ pmArgs.rt.Envelope = FullEnvelope
    /\ pmArgs.payload = <<F(4, <<8>>), F(1, <<7>>)>>
    /\ pmRes.out = pmArgs.payload

\* C18: a read through an empty envelope field name returns the typed zero
\* without going to the message; under inspect-verify-sign an empty
\* proxy_sig_field makes the write fail and the frame is forwarded byte for byte.
C18_EmptyNamesReadZeroAndFailWrite ==
    (pmPc = "done" /\ PmDecodes) =>
        /\ "" \notin pmRes.reads
        /\ getBytesField(PmIn, "") = << >>
        /\ getStringField(PmIn, "") = << >>
        /\ pmArgs.rt.Envelope.PayloadField = "" =>
              pmRes.payloadBytes = << >> /\ ~pmRes.innerLookup
        /\ pmArgs.rt.Envelope.TypeURLField = "" => ~pmRes.innerLookup
        /\ (PmSigned /\ pmArgs.rt.Envelope.ClientSigField = "") => ~pmRes.verifyCalled
        /\ (PmSigned /\ pmArgs.rt.Envelope.ProxySigField = "") =>
              pmRes.stage = "set-error" /\ pmRes.out = pmArgs.payload

\* a signing route with no field name mapped met an envelope with a payload and a
\* proxy signature: nothing was read, the write failed, the bytes went on unchanged
C18_Witness ==
    /\ PmSigned /\ PmDecodes
    /\ pmArgs.rt.Envelope = EmptyEnvelope
    /\ pmArgs.payload = <<F(4, <<8>>), F(1, <<7>>)>>
    /\ PmDesc = SecureEnvelopeDesc
    /\ pmRes.reads = {}
    /\ pmRes.payloadBytes = << >>
    /\ pmRes.stage = "set-error"
    /\ pmRes.out = pmArgs.payload

\* the call went through the verify-and-sign block
PmReachedSigning ==
    PmSigned /\ pmRes.stage \in {"set-error", "marshal-error", "re-serialized"}

\* C19: for a zero-length payload, under either engine, verification gives false
\* and signing gives none, and neither an RSA operation nor a foreign call is made.
C19_EmptyPayloadSkipsCrypto ==
    (PmReachedSigning /\ pmRes.payloadBytes = << >> /\ proxyPrivateKey # << >>) =>
        /\ ~pmRes.verifyCalled
        /\ ~pmRes.verifyOk
        /\ ~pmRes.signCalled
        /\ pmRes.proxySig = << >>

\* C20: under inspect-verify-sign with no proxy private key configured, under
\* either engine, the value written into the proxy signature field is
\* "proxy_signed_" followed by the payload bytes, and no signing is attempted.
C20_MockSignatureWithoutKey ==
    (PmReachedSigning /\ proxyPrivateKey = << >>) =>
        /\ ~pmRes.signCalled
        /\ pmRes.proxySig = ProxySignedPrefix \o PmPayload
        /\ pmRes.stage = "re-serialized" =>
              /\ PmSigNums # {}
              /\ \A n \in PmSigNums : PmFwd.values[n] = ProxySignedPrefix \o PmPayload

\* the foreign engine, no key: an envelope with payload <<7>> went on with
\* "proxy_signed_" and the payload in its proxy signature field
C20_Witness ==
    /\ PmReachedSigning
    /\ proxyPrivateKey = << >>
    /\ cryptoEngine = "rust"
    /\ pmRes.stage = "re-serialized"
    /\ PmPayload = <<7>>
    /\ 4 \in PmSigNums
    /\ PmFwd.values[4] = ProxySignedPrefix \o <<7>>
    /\ pmArgs.payload = <<F(1, <<7>>), F(4, <<8>>)>>

\* the frame's client signature as processMsg reads it
PmClientSig == getBytesField(PmIn, pmArgs.rt.Envelope.ClientSigField)

\* C30: under inspect-verify-sign, for every frame whose client signature field is
\* not empty while a trust anchor is configured, the selected engine's verify is
\* invoked on the payload and the client signature before the proxy signature is
\* produced, with the native engine as with the foreign one.
C30_VerifyInvokedBeforeSigning ==
    (PmReachedSigning /\ PmClientSig # << >> /\ clientTrustPool # << >>) =>
        pmRes.verifyInvoked

\* C21: the two crypto engines are interchangeable: for every frame, route and key
\* configuration, processMsg run with the Go engine and run with the Rust engine
\* forward the same bytes.
C21_EnginesForwardSameBytes ==
    pmPc = "twin-done" => pmRes.out = pmFirst.out

\* the round trip signed a payload that is not empty
RoundSigned ==
    /\ pmPc = "twin-done"
    /\ pmFirst.payloadBytes # << >>
    /\ pmFirst.proxySig # << >>

\* C22: for each crypto backend, sign is deterministic (the same payload and key
\* give the same signature bytes) and verify(payload, sign(payload, priv),
\* spkiPem(priv)) is true for every payload that is not empty.
C22_SignThenVerify ==
    RoundSigned => (pmRes.proxySig = pmFirst.proxySig /\ pmRes.verifyOk)

\* C23: Marshal of a byte-sequence handle returns exactly the handle's bytes, and
\* Unmarshal stores a copy of the wire bytes in the handle: Marshal after
\* Unmarshal(b) gives b, and a later overwrite of the transport buffer passed to
\* Unmarshal does not change the bytes the handle holds.
C23_UnmarshalCopiesMarshalReturns ==
    IsBytesHandle(codec.v0) =>
        /\ codec.unmarshalled =>
              (~codec.err /\ codec.heap[codec.v.ref] = codec.wire0)
        /\ codec.pc = "marshalled" =>
              (~codec.err /\ codec.out = codec.v.ref
               /\ (codec.unmarshalled => codec.heap[codec.out] = codec.wire0))

\* a frame was unmarshalled, the transport put other bytes into its buffer, and
\* Marshal gave the frame back
C23_Witness ==
    /\ IsBytesHandle(codec.v0)
    /\ codec.pc = "marshalled"
    /\ codec.reused
    /\ codec.wire0 # << >>
    /\ codec.heap[TransportBuf] # codec.wire0
    /\ codec.heap[codec.out] = codec.wire0

\* C24: Marshal or Unmarshal invoked with a handle that is not a byte-sequence
\* handle returns an error, produces no bytes and leaves the handle as it was.
C24_WrongHandleIsError ==
    (~(codec.v0.type = "*[]byte") /\ (codec.unmarshalled \/ codec.pc = "marshalled")) =>
        /\ codec.err
        /\ codec.out = "nil"
        /\ codec.v = codec.v0
        /\ codec.heap[HandleBuf] = codec.held0

\* both calls were made with a []byte that holds bytes, and both failed
C24_Witness ==
    /\ codec.v0.type = "[]byte"
    /\ codec.unmarshalled
    /\ codec.pc = "marshalled"
    /\ codec.err
    /\ codec.held0 # << >>
    /\ codec.wire0 # << >>

\* what main sets up before it serves: the descriptor registry, the route list,
\* the crypto engine and the crypto materials
StartupState ==
    <<methodDescriptors, appConfig, cryptoEngine, clientTrustPool, proxyPrivateKey,
      clientPublicKeyPEM, proxyPrivateKeyPEM>>

C26_InboundCancelEndsRpc ==
    /\ [][(inbound.cancelled /\ s2c.pc = "recv" /\ s2c'.pc # "recv")
              => s2c'.pc = "report"]_vars
    /\ (inbound.cancelled /\ streams > 0) ~> (hpc = "done")

\* the client went away while the handler waited for the server-to-client pump
\* after the half-close; that pump's receive was cancelled and the handler
\* returned that status
C26_Witness ==
    /\ inbound.cancelled
    /\ hist.c2sTaken = "EOF"
    /\ hist.s2cTaken = "Canceled"
    /\ hpc = "done"
    /\ retStatus = "Canceled"

\* the handler returned on a pump's error that is not the end of a stream
FatalReturn ==
    /\ hpc = "done"
    /\ \/ hist.s2cTaken \notin {"", "EOF"}
       \/ hist.c2sTaken \notin {"", "EOF"}

\* C27: after the handler returned because of a fatal error on one pump, the other
\* pump eventually stops: its pending receive or send fails, it reports at most
\* one terminal status, which its channel has room for, and it exits.
C27_OtherPumpUnwinds ==
    /\ [](s2c.pc = "report" => (s2cErrChan = << >> /\ hist.s2cReport = ""))
    /\ [](c2s.pc = "report" => (c2sErrChan = << >> /\ hist.c2sReport = ""))
    /\ FatalReturn ~> (s2c.pc = "done" /\ c2s.pc = "done")

\* the handler returned on the backend's error while the client-to-backend pump
\* was at work; that pump then failed, reported and exited
C27_Witness ==
    /\ FatalReturn
    /\ hist.s2cTaken = "ErrBackend"
    /\ hist.c2sLate
    /\ hist.c2sReport # ""
    /\ c2s.pc = "done"
    /\ s2c.pc = "done"

\* the answers of SecureBidiEcho to the frames in
EchoResponses(in) == [i \in 1..Len(in) |-> EchoResponse(in[i])]

\* the RPC ended in success: the backend got every frame the client sent, in
\* order and transformed, and then one half-close; the client got the answer to
\* each of them, in order and transformed
BidiDone ==
    /\ retStatus = "OK"
    /\ hist.halfClose
    /\ closeSends = 1
    /\ hist.sentAtClose = Len(hist.c2sIn)
    /\ hist.c2sOut = ForwardedAll(TRUE, hist.c2sIn)
    /\ hist.s2cIn = EchoResponses(hist.c2sOut)
    /\ hist.s2cOut = ForwardedAll(FALSE, hist.s2cIn)

\* C28: in a bidirectional RPC in which the client sends N frames and then
\* half-closes and the backend answers each frame and ends its stream cleanly once
\* it sees the half-close, the proxy eventually returns success, the backend has
\* received the N frames in order followed by one half-close, and the client has
\* received every answer of the backend in order before the end of the stream.
C28_BidiCompletes ==
    /\ []((hpc = "done" /\ streams > 0 /\ ~inbound.cancelled) => BidiDone)
    /\ (streams > 0) ~> (hpc = "done" \/ inbound.cancelled)

\* a signed RPC of as many frames as the bound allows has completed
C28_Witness ==
    /\ hpc = "done"
    /\ ~inbound.cancelled
    /\ BidiDone
    /\ route.Mode = "inspect-verify-sign"
    /\ Len(hist.c2sIn) = MaxFrames
    /\ Len(hist.s2cOut) = MaxFrames

\* the frame a pump holds for sending is the transformed last frame it received
HoldsOwn(pump, isReq, in) ==
    pump.pc = "send" => (Len(in) > 0 /\ pump.payload = Forwarded(isReq, in[Len(in)]))

\* C29: with two RPCs served at the same time, every frame received on an RPC's
\* inbound or outbound stream is forwarded only to that RPC's paired stream: what
\* its backend stream got is, in order, what its own client sent, what its client
\* got is, in order, what its own backend stream answered, and a pump never holds
\* a frame of the other RPC. (Stated of the RPC that steps; each of the two is
\* that RPC after every switch.)
C29_NoCrossTalk ==
    parked # NoRpc =>
        /\ \A i \in 1..Len(hist.c2sIn) : hist.c2sIn[i] \in wire
        /\ IsPrefixOf(hist.c2sOut, ForwardedAll(TRUE, hist.c2sIn))
        /\ IsPrefixOf(hist.s2cIn, EchoResponses(hist.c2sOut))
        /\ IsPrefixOf(hist.s2cOut, ForwardedAll(FALSE, hist.s2cIn))
        /\ HoldsOwn(c2s, TRUE, hist.c2sIn)
        /\ HoldsOwn(s2c, FALSE, hist.s2cIn)

\* both RPCs have completed with frames of their own in both directions
C29_Witness ==
    /\ parked # NoRpc
    /\ hpc = "done" /\ parked.hpc = "done"
    /\ retStatus = "OK" /\ parked.retStatus = "OK"
    /\ ~inbound.cancelled /\ ~parked.inbound.cancelled
    /\ Len(hist.s2cOut) = MaxFrames /\ Len(parked.hist.s2cOut) = MaxFrames
    /\ hist.c2sIn # parked.hist.c2sIn

\* a call of processMsg has returned
PmReturned == pmPc \in {"done", "twin-done"}

\* C31: for a route that is not pass-thru, processMsg decodes client-to-backend
\* frames against the method's input message descriptor and backend-to-client
\* frames against its output message descriptor, and applies the same envelope
\* transform, proxy signature included, in both directions: where the two
\* descriptors are the same, so are the bytes returned for the same frame.
C31_DescriptorByDirection ==
    /\ (PmReturned /\ pmRes.msg # << >>) =>
          pmRes.msg[1].desc = (IF pmArgs.isReq
                               THEN methodDescriptors[pmArgs.method].input
                               ELSE methodDescriptors[pmArgs.method].output)
    /\ (pmPc = "twin-done"
        /\ methodDescriptors[pmArgs.method].input = methodDescriptors[pmArgs.method].output)
          => pmRes.out = pmFirst.out

\* a response of SecureEcho was signed as the request was, and a response of the
\* method that answers with another message was decoded against that message
C31_Witness ==
    /\ pmPc = "twin-done"
    /\ pmArgs.rt.Mode = "inspect-verify-sign"
    /\ pmRes.msg # << >>
    /\ \/ /\ pmArgs.method = MSecureEcho
          /\ pmRes.stage = "re-serialized"
          /\ pmRes.proxySig # << >>
          /\ pmRes.out # pmArgs.payload
       \/ /\ pmArgs.method = MSecureUp
          /\ pmRes.msg[1].desc = EchoResponseDesc
          /\ pmFirst.msg[1].desc = SecureEnvelopeDesc
          /\ pmRes.out # pmFirst.out

\* C32: for every call of the foreign sign, with a zero-length payload or key the
\* foreign side is not called; otherwise every allocation the foreign side hands
\* back is released by exactly one release call, made after the bytes were copied
\* into proxy-owned memory and before the call returns to the pump, and the
\* released buffer is never read afterwards.
C32_ForeignBufferReleasedOnce ==
    /\ (Len(ffi.payload) = 0 \/ Len(ffi.privKeyPEM) = 0) => ffi.called = 0
    /\ ffi.frees <= 1
    /\ ffi.frees = 1 => ffi.copied
    /\ ~ffi.readFreed
    /\ ffi.pc = "returned" =>
          /\ ffi.buf # "live"
          /\ ffi.buf = "freed" =>
                (ffi.frees = 1
                 /\ ffi.result = SignPKCS1v15(KeyOfPEM(ffi.privKeyPEM), Sha256(ffi.payload)))

\* a signature came back from the foreign side, was copied and released, and was
\* returned
C32_Witness ==
    /\ ffi.pc = "returned"
    /\ ffi.called = 1
    /\ ffi.buf = "freed"
    /\ ffi.copied
    /\ ffi.result # << >>

\* C33: the inner-payload inspection step has no effect on forwarding: for a
\* fixed frame, route and key, the bytes processMsg returns are the same whether
\* the suffix lookup finds a descriptor, finds none, picks a different one among
\* several matches, or the nested unmarshal fails.
C33_InnerInspectionDoesNotChangeBytes ==
    pmPc = "twin-done" =>
        /\ pmRes.out = pmFirst.out
        /\ pmRes.stage = pmFirst.stage

\* the two runs signed the frame; in one the lookup found the inner descriptor
\* and decoded the payload, in the other it found none
C33_Witness ==
    /\ pmPc = "twin-done"
    /\ pmRes.stage = "re-serialized"
    /\ pmRes.out # pmArgs.payload
    /\ pmFirst.innerDecoded
    /\ pmRes.innerLookup
    /\ ~pmRes.innerFound

\* C34 as stated: the inbound metadata is copied into the outbound context
\* exactly once per RPC.
C34_MirroredExactlyOnce == hpc = "done" => outbound.mdCopies = 1

\* C34, amended: the inbound metadata is copied into the outbound context at
\* most once per RPC, and exactly once in every RPC whose method name could be
\* read, before the backend is dialled and so before the outbound stream is
\* opened; nothing the handler or the pumps do afterwards modifies it.
C34_MirroredOnceBeforeStream ==
    /\ outbound.mdCopies <= 1
    /\ (hpc \notin {"start", "dial"} /\ retStatus # "Internal") =>
          (outbound.mdCopies = 1 /\ outbound.md = inbound.md)
    /\ (streams > 0 \/ conn # "none" \/ clientCtx # "none") => outbound.mdCopies = 1
    /\ retStatus = "Internal" => (outbound.mdCopies = 0 /\ outbound.md = << >>)

\* the RPC ran to its end with both pumps at work, and the outbound context
\* still holds the one copy of the client's metadata
C34_Witness ==
    /\ hpc = "done"
    /\ streams = 1
    /\ Len(hist.c2sOut) > 0
    /\ Len(hist.s2cOut) > 0
    /\ outbound.mdCopies = 1
    /\ outbound.md = ClientMetadata

\* C35: each pump writes at most one value to its error channel and then stops;
\* because each channel has capacity one, that write never blocks, even when the
\* handler has already returned and nobody will read the channel.
C35_OneReportNeverBlocks ==
    /\ s2c.pc = "report" => (s2cErrChan = << >> /\ hist.s2cReport = "")
    /\ c2s.pc = "report" => (c2sErrChan = << >> /\ hist.c2sReport = "")
    /\ hist.s2cReport # "" <=> s2c.pc = "done"
    /\ hist.c2sReport # "" <=> c2s.pc = "done"
    /\ Len(s2cErrChan) <= 1
    /\ Len(c2sErrChan) <= 1
    /\ s2cErrChan # << >> => s2cErrChan = <<hist.s2cReport>>
    /\ c2sErrChan # << >> => c2sErrChan = <<hist.c2sReport>>

\* the handler returned success on the backend's end-of-stream; the
\* client-to-backend pump reported afterwards, and its report stays in the
\* channel unread
C35_Witness ==
    /\ hpc = "done"
    /\ retStatus = "OK"
    /\ hist.s2cTaken = "EOF"
    /\ hist.c2sLate
    /\ c2s.pc = "done"
    /\ c2sErrChan = <<hist.c2sReport>>
    /\ hist.c2sTaken = ""

\* C36: whenever the handler returns success, the server-to-client pump has
\* observed clean end-of-stream from the backend and every frame the backend sent
\* before that end-of-stream has already been sent to the client, in order.
C36_SuccessMeansDrained ==
    (hpc = "done" /\ retStatus = "OK") =>
        /\ hist.s2cTaken = "EOF"
        /\ hist.s2cReport = "EOF"
        /\ ~hist.s2cLate
        /\ s2c.pc = "done"
        /\ outbound.done = "ok"
        /\ hist.s2cOut = ForwardedAll(FALSE, hist.s2cIn)

\* the handler returned success after the backend had sent two frames and ended
\* the stream, without the client's half-close having been taken
C36_Witness ==
    /\ hpc = "done"
    /\ retStatus = "OK"
    /\ Len(hist.s2cIn) = MaxFrames
    /\ hist.s2cOut = ForwardedAll(FALSE, hist.s2cIn)
    /\ closeSends = 0
    /\ route.Mode # "pass-thru"

C38_HalfCloseOnlyOnClientEnd == closeSends > 0 => hist.halfClose

\* C39: for a matched route whose mode string is anything other than
\* inspect-verify-sign (inspect-outer, the empty string, or an unrecognized
\* value), the forwarded frame equals the received frame byte-for-byte; only mode
\* inspect-verify-sign can change a frame.
C39_OnlySigningModeChangesFrames ==
    (hpc # "start" /\ retStatus # "Internal" /\ route.Mode # "inspect-verify-sign") =>
        /\ route = appConfig.Routes[1]
        /\ IsPrefixOf(hist.c2sOut, hist.c2sIn)
        /\ IsPrefixOf(hist.s2cOut, hist.s2cIn)
        /\ HoldsLastVerbatim(c2s, hist.c2sIn)
        /\ HoldsLastVerbatim(s2c, hist.s2cIn)

\* on a route with a mode the proxy does not know, processMsg was called on a
\* frame a re-encoding would change, and the frame went out as it came, each way
C39_Witness ==
    /\ route.Mode = "audit"
    /\ procCalls >= 2
    /\ Len(hist.c2sOut) >= 1
    /\ Len(hist.s2cOut) >= 1
    /\ hist.c2sOut[1] = hist.c2sIn[1]
    /\ hist.s2cOut[1] = hist.s2cIn[1]
    /\ Marshal(Unmarshal(SecureEnvelopeDesc, hist.c2sIn[1])) # hist.c2sIn[1]
    /\ Marshal(Unmarshal(SecureEnvelopeDesc, hist.s2cIn[1])) # hist.s2cIn[1]

====
